---- MODULE Spec2Model ----
(***************************************************************************)
(* Model of the RAG ingestion pipeline of the climate-careers backend:     *)
(*   rag_pipeline/document_processor.py  chunk_text, create_embeddings,    *)
(*                                       process_document, store_*         *)
(*   rag_pipeline/pdf_processor.py, website_processor.py,                  *)
(*   rag_pipeline/resume_processor.py    extract_text of each processor    *)
(*   rag_pipeline/pipeline_manager.py    job map, queue, worker pool       *)
(*   backend_agent_api/rate_limiter.py   RateLimiter, RateLimitMiddleware  *)
(*   rag_pipeline/api.py                 validate_token, POST /process,    *)
(*                                       POST /resume/upload, GET /status, *)
(*                                       GET /jobs, GET /health            *)
(*                                                                         *)
(* Offsets into a text are Python's (0-based, end exclusive); a text is a  *)
(* sequence of one-character strings, so text[i] of Python is text[i+1].   *)
(***************************************************************************)
EXTENDS Integers, Sequences, FiniteSets, TLC

VARIABLES
    \* ---- RAGPipelineManager (pipeline_manager.py) ----
    active_jobs,        \* self.active_jobs: job id -> job record
    processing_queue,   \* self.processing_queue: FIFO of queued job tuples
    started,            \* start_workers has run (api.py startup_event)
    wpc,                \* per worker task: where the coroutine is suspended
    wjob,               \* per worker task: the tuple it dequeued
    wctx,               \* per worker task: locals of process_document
    \* ---- the remote store (Supabase tables) ----
    documents,          \* table "documents": the chunk rows
    document_metadata,  \* table "document_metadata": the metadata rows
    knowledge_resources,\* table "knowledge_resources": the resource rows
    now,                \* the wall clock, in seconds (datetime.now())
    \* ---- the response of the HTTP handler that ran in the last step ----
    lookup,
    \* ---- chunk_text applied to one text (document_processor.py) ----
    ct_text,            \* the argument
    ct_runs,            \* number of runs the argument was built from
    ct_pc,              \* "build" | "loop" | "done"
    ct_out,             \* the list chunk_text returned
    ct_loop,            \* locals of its while loop, and the iterations so far
    \* ---- DocumentProcessor configuration and direct callers ----
    embedding_model,    \* self.embedding_model (EMBEDDING_MODEL_CHOICE)
    pd,                 \* a direct call of process_document: its locals
    \* ---- the HTTP surface with its token check (api.py) ----
    last_http,          \* the last request and the response it got
    \* ---- the similarity searches (document_processor.py, resume_processor.py)
    search,             \* the last search call: what it did and returned
    \* ---- RateLimiter (backend_agent_api/rate_limiter.py) ----
    limiter,            \* requests, cleanup_counter, the clock, last decision
    \* ---- the calls of queue_item the HTTP handlers made ----
    submitted           \* job id -> the caller and the metadata argument

vars == << active_jobs, processing_queue, started, wpc, wjob, wctx,
           documents, document_metadata, knowledge_resources, now, lookup,
           ct_text, ct_runs, ct_pc, ct_out, ct_loop, embedding_model, pd,
           last_http, search, limiter, submitted >>

pipeline_vars == << active_jobs, processing_queue, started, wpc, wjob, wctx,
                    documents, document_metadata, knowledge_resources, now,
                    lookup, embedding_model, pd, last_http, search,
                    limiter, submitted >>

chunk_vars == << ct_text, ct_runs, ct_pc, ct_out, ct_loop >>

\* the configuration, the direct caller and the last HTTP exchange, which
\* the manager leaves alone
caller_vars == << embedding_model, pd, last_http, search, limiter, submitted >>

-----------------------------------------------------------------------------
(* Program constants *)

\* DocumentProcessor.__init__: self.chunk_size = 400
chunk_size == 400
\* DocumentProcessor.__init__: self.chunk_overlap = 50
chunk_overlap == 50
\* DocumentProcessor.__init__: self.vector_dimensions = 1536
vector_dimensions == 1536
\* store_document_chunks: batch_size = 10
batch_size == 10
\* RAGPipelineManager.__init__: self.worker_count = 2
worker_count == 2

(* Bounds of the model *)

\* number of queue_item calls explored
MaxJobs == 2
\* the clock runs from 0 to MaxTime seconds
MaxTime == 1
\* a chunk_text argument is built from at most MaxRuns runs of one character
MaxRuns == 3
\* and is at most MaxTextLen characters long
MaxTextLen == 1000
\* number of direct calls of process_document explored
MaxCalls == 2
\* RATE_LIMIT_PER_MINUTE and RATE_LIMIT_BURST of the configuration explored
\* (the defaults are 60 and 10)
rate_limit == 3
burst_limit == 2
\* number of jobs enqueued where the worker pool is the subject: one more
\* than there are workers
MaxPoolJobs == 3

-----------------------------------------------------------------------------
(* Texts and str methods *)

Letter == "a"
Space == " "
Newline == "\n"
Chars == {Letter, Space, Newline}

\* str.isspace() of one character: what str.strip() removes
IsWhitespace(c) == c \in {Space, Newline}

Min(a, b) == IF a < b THEN a ELSE b
Max(a, b) == IF a > b THEN a ELSE b

\* n copies of the character c
Run(c, n) == [i \in 1..n |-> c]

\* text[start:end] for 0 <= start: Python clamps the slice to the text
Slice(text, start, end) == SubSeq(text, start + 1, Min(end, Len(text)))

\* text.rfind(ch, lo, hi): the highest index i, lo <= i < hi <= len(text),
\* with text[i] = ch, or -1. The range is halved, the upper half first.
RECURSIVE rfind_in(_, _, _, _)
rfind_in(text, ch, lo, hi) ==
    IF hi <= lo THEN -1
    ELSE IF hi = lo + 1 THEN (IF text[lo + 1] = ch THEN lo ELSE -1)
    ELSE LET mid == (lo + hi) \div 2
             upper == rfind_in(text, ch, mid, hi)
         IN  IF upper # -1 THEN upper ELSE rfind_in(text, ch, lo, mid)

rfind(text, ch, start, end) == rfind_in(text, ch, start, Min(end, Len(text)))

\* index (1-based) of the first non-whitespace character of s[lo..hi], or 0
RECURSIVE first_non_ws(_, _, _)
first_non_ws(s, lo, hi) ==
    IF hi < lo THEN 0
    ELSE IF hi = lo THEN (IF IsWhitespace(s[lo]) THEN 0 ELSE lo)
    ELSE LET mid == (lo + hi) \div 2
             lower == first_non_ws(s, lo, mid)
         IN  IF lower # 0 THEN lower ELSE first_non_ws(s, mid + 1, hi)

\* index (1-based) of the last non-whitespace character of s[lo..hi], or 0
RECURSIVE last_non_ws(_, _, _)
last_non_ws(s, lo, hi) ==
    IF hi < lo THEN 0
    ELSE IF hi = lo THEN (IF IsWhitespace(s[lo]) THEN 0 ELSE lo)
    ELSE LET mid == (lo + hi) \div 2
             upper == last_non_ws(s, mid + 1, hi)
         IN  IF upper # 0 THEN upper ELSE last_non_ws(s, lo, mid)

\* s.strip()
strip(s) ==
    LET first == first_non_ws(s, 1, Len(s))
    IN  IF first = 0 THEN << >> ELSE SubSeq(s, first, last_non_ws(s, 1, Len(s)))

-----------------------------------------------------------------------------
(* DocumentProcessor.chunk_text *)

\* the end of the window that starts at start (lines 110-117)
window_end(text, start) ==
    LET end == start + chunk_size
        space_pos == rfind(text, Space, start, end)
    IN  IF end < Len(text) /\ space_pos > start THEN space_pos ELSE end

\* a loop that advances by the overlap
next_start_overlap(start) == Max(start + chunk_overlap, start + 1)

\* start of the next window (line 124)
next_start(start) == Max(start + chunk_size - chunk_overlap, start + 1)

\* the windows <<start, end>> the while loop visits, in order (lines 109-128)
RECURSIVE chunk_windows_from(_, _)
chunk_windows_from(text, start) ==
    IF start >= Len(text) THEN << >>
    ELSE << << start, window_end(text, start) >> >>
         \o chunk_windows_from(text, next_start(start))

chunk_windows(text) == chunk_windows_from(text, 0)

\* the stripped chunk of every window, empty ones included (line 119)
window_chunks(text) ==
    LET ws == chunk_windows(text)
    IN  [k \in 1..Len(ws) |-> strip(Slice(text, ws[k][1], ws[k][2]))]

NonEmpty(s) == s # << >>

\* the part <<start, end>> of the text each returned chunk was cut from:
\* the windows, or text[:chunk_size] when every window was blank (line 130)
chunk_spans(text) ==
    IF text = << >> \/ Len(strip(text)) = 0 THEN << >>
    ELSE IF SelectSeq(window_chunks(text), NonEmpty) # << >> THEN chunk_windows(text)
    ELSE << << 0, chunk_size >> >>

IsOffset(o) == o >= 0

\* the offset in the text of the first character of each returned chunk:
\* the first character of the window that strip() keeps (line 119), or 0
\* for text[:chunk_size] (line 130)
chunk_offsets(text) ==
    IF text = << >> \/ Len(strip(text)) = 0 THEN << >>
    ELSE LET ws == chunk_windows(text)
             offsets == [k \in 1..Len(ws) |->
                            first_non_ws(text, ws[k][1] + 1,
                                         Min(ws[k][2], Len(text))) - 1]
             kept == SelectSeq(offsets, IsOffset)
         IN  IF kept # << >> THEN kept ELSE << 0 >>

\* chunk_text whose last resort is the whole text
chunk_text_whole(text) ==
    IF text = << >> \/ Len(strip(text)) = 0 THEN << >>
    ELSE LET chunks == SelectSeq(window_chunks(text), NonEmpty)
         IN  IF chunks # << >> THEN chunks
             ELSE << text >>

\* chunk_text(text) (lines 92-130)
chunk_text(text) ==
    IF text = << >> \/ Len(strip(text)) = 0 THEN << >>
    ELSE LET chunks == SelectSeq(window_chunks(text), NonEmpty)
         IN  IF chunks # << >> THEN chunks
             ELSE << Slice(text, 0, chunk_size) >>

-----------------------------------------------------------------------------
(* chunk_text applied to bounded texts *)

\* lengths of the runs a text is built from
RunLens == {1, 50, 200, 400}

NotCalled == << "not called" >>

\* the locals of the while loop: start, chunks, and the iterations counted
Loop(start, chunks, iterations) ==
    [start |-> start, chunks |-> chunks, iterations |-> iterations]

NoLoop == Loop(0, << >>, 0)

InitChunk ==
    /\ ct_text = << >>
    /\ ct_runs = 0
    /\ ct_pc = "build"
    /\ ct_out = NotCalled
    /\ ct_loop = NoLoop

\* the caller extends the text by a run of n characters c
AppendRun ==
    /\ ct_pc = "build"
    /\ ct_runs < MaxRuns
    /\ \E c \in Chars, n \in RunLens :
          /\ Len(ct_text) + n <= MaxTextLen
          /\ ct_text' = ct_text \o Run(c, n)
    /\ ct_runs' = ct_runs + 1
    /\ UNCHANGED << ct_pc, ct_out, ct_loop >>
    /\ UNCHANGED pipeline_vars

\* chunks = self.chunk_text(text)
CallChunkText ==
    /\ ct_pc = "build"
    /\ ct_out' = chunk_text(ct_text)
    /\ ct_pc' = "done"
    /\ UNCHANGED << ct_text, ct_runs, ct_loop >>
    /\ UNCHANGED pipeline_vars

\* chunk_text from its call to the while loop (lines 102-109)
EnterChunkText ==
    /\ ct_pc = "build"
    /\ IF ct_text = << >> \/ Len(strip(ct_text)) = 0
       THEN ct_out' = << >> /\ ct_pc' = "done"
       ELSE ct_out' = ct_out /\ ct_pc' = "loop"
    /\ UNCHANGED << ct_text, ct_runs, ct_loop >>
    /\ UNCHANGED pipeline_vars

\* one iteration of the while loop (lines 109-128) and, when it was the
\* last, the return (line 130)
LoopIteration ==
    /\ ct_pc = "loop"
    /\ ct_loop.start < Len(ct_text)
    /\ LET start == ct_loop.start
           chunk == strip(Slice(ct_text, start, window_end(ct_text, start)))
           chunks == IF chunk # << >> THEN Append(ct_loop.chunks, chunk)
                     ELSE ct_loop.chunks
       IN  /\ ct_loop' = Loop(next_start(start), chunks, ct_loop.iterations + 1)
           /\ IF next_start(start) >= Len(ct_text)
              THEN /\ ct_out' = IF chunks # << >> THEN chunks
                                ELSE << Slice(ct_text, 0, chunk_size) >>
                   /\ ct_pc' = "done"
              ELSE UNCHANGED << ct_out, ct_pc >>
    /\ UNCHANGED << ct_text, ct_runs >>
    /\ UNCHANGED pipeline_vars

-----------------------------------------------------------------------------
(* Values *)

\* Python's None, and a present value
None == << >>
Some(x) == << x >>

Workers == 1..worker_count

\* uuid.uuid4(): a fresh id at every call; the k-th call draws id k
JobIds == 1..MaxJobs

\* ids a client may ask the status of: 0 is an id queue_item never issues
LookupIds == 0..MaxJobs

\* task_type as the callers pass it: /process passes 'pdf' or 'website',
\* /resume/upload 'resume', /batch whatever the item holds (any JSON value:
\* "int" stands for a number, which has no .lower())
TaskTypes == {"pdf", "URL", "website", "resume", "unknown", "int"}

IsString(task_type) == task_type # "int"

\* str.lower() on the task types
lower(task_type) == IF task_type = "URL" THEN "url" ELSE task_type

\* What a content is: PDF bytes pypdf can read, bytes no PDF reader can read,
\* or the URL of a page
ContentKinds == {"pdf_bytes", "bad_bytes", "url"}
Contents == {"pdf_long", "pdf_bad", "url_short"}

ContentKind(content) ==
    CASE content = "pdf_long" -> "pdf_bytes"
      [] content = "pdf_bad" -> "bad_bytes"
      [] content = "url_short" -> "url"

\* hashlib.md5(content).hexdigest()[:8]: equal contents, equal hashes
content_hash(content) ==
    CASE content = "pdf_long" -> "h1"
      [] content = "pdf_bad" -> "h2"
      [] content = "url_short" -> "h3"

\* The texts an extract_text can return. The extractors of the three
\* processors never return "empty" or "whitespace" (see extract_text below);
\* the extract_text of another subclass of DocumentProcessor can.
TextIds == {"pdf_long", "url_short", "error_message", "empty", "whitespace"}

\* 3600 characters, a space after every six letters
LongText == [i \in 1..3600 |-> IF i % 7 = 0 THEN Space ELSE Letter]
\* 30 characters
ShortText == [i \in 1..30 |-> IF i % 5 = 0 THEN Space ELSE Letter]
\* "Unable to extract text from PDF. Text extraction failed." and the like:
\* the message an extractor returns as the text when it fails
ErrorMessageText == [i \in 1..56 |-> IF i % 8 = 0 THEN Space ELSE Letter]

\* 450 characters, spaces and newlines in turn
WhitespaceText == [i \in 1..450 |-> IF i % 2 = 0 THEN Space ELSE Newline]

TextOf(tid) ==
    CASE tid = "pdf_long" -> LongText
      [] tid = "url_short" -> ShortText
      [] tid = "error_message" -> ErrorMessageText
      [] tid = "empty" -> << >>
      [] tid = "whitespace" -> WhitespaceText

\* a count taken from the length of the text alone: len / chunk_size, up
NChunks_by_size ==
    [tid \in TextIds |-> (Len(TextOf(tid)) + chunk_size - 1) \div chunk_size]

\* len(self.chunk_text(extracted_text)) of each text
NChunks == [tid \in TextIds |-> Len(chunk_text(TextOf(tid)))]

TargetTables == {"knowledge_resources", "documents"}

\* metadata.get('content_type'): "absent" when the key is missing
ContentTypes == {"article", "absent"}

\* The calls of queue_item explored
JobInputs ==
    { [task_type |-> "pdf", content |-> "pdf_long", content_type |-> "article",
       target_table |-> "documents"],
      [task_type |-> "pdf", content |-> "pdf_bad", content_type |-> "absent",
       target_table |-> "knowledge_resources"],
      [task_type |-> "website", content |-> "url_short", content_type |-> "article",
       target_table |-> "knowledge_resources"],
      [task_type |-> "URL", content |-> "url_short", content_type |-> "absent",
       target_table |-> "documents"],
      [task_type |-> "resume", content |-> "pdf_long", content_type |-> "resume",
       target_table |-> "documents"],
      [task_type |-> "unknown", content |-> "url_short", content_type |-> "absent",
       target_table |-> "knowledge_resources"],
      [task_type |-> "int", content |-> "url_short", content_type |-> "absent",
       target_table |-> "knowledge_resources"] }

\* The calls of queue_item explored together with the reading handlers
ApiJobInputs ==
    {in \in JobInputs : in.task_type \in {"website", "unknown"}}

\* A processing result: the dict process_item returns
Result(success, error, document_id, chunks_created) ==
    [success |-> success, error |-> error, document_id |-> document_id,
     chunks_created |-> chunks_created]

Failure(error, document_id) == Result(FALSE, error, document_id, 0)

\* What a call came to: it returned value, or it raised
Returned(value) == [raised |-> FALSE, value |-> value]
Raised(error) == [raised |-> TRUE, value |-> Failure(error, None)]

NoOutcome == [raised |-> FALSE, value |-> Failure("", None)]

\* The queue item before any was dequeued
NoItem == [job_id |-> 0, task_type |-> "", content |-> "", content_type |-> "",
           target_table |-> ""]

\* What create_embeddings returned: count vectors of dim components each,
\* placeholders or the provider's; raised when it raised instead
Embeddings(count, dim, placeholder) ==
    [raised |-> FALSE, count |-> count, dim |-> dim, placeholder |-> placeholder]

NoEmbeddings == [raised |-> TRUE, count |-> 0, dim |-> 0, placeholder |-> FALSE]

\* The locals of process_document, how the provider call ended ("" before
\* the call, "ok", "raised") and the number of chunk inserts that succeeded
Ctx(document_id, text, outcome) ==
    [document_id |-> document_id, text |-> text, provider |-> "",
     embeddings |-> NoEmbeddings, inserted |-> 0, outcome |-> outcome]

NoCtx == Ctx(None, "", NoOutcome)

NoLookup == [op |-> "", id |-> 0, status |-> "", http |-> 0, count |-> 0]

\* EMBEDDING_MODEL_CHOICE: the default, or a model of another vector length
EmbeddingModels == {"text-embedding-3-small", "nomic-embed-text"}

\* the length of the vectors the provider returns for the model
model_dimensions(model) ==
    IF model = "text-embedding-3-small" THEN vector_dimensions ELSE 768

\* process_document called by a subclass directly: the number of the call
\* and its locals
Call(calls, pc, document_id, text, outcome) ==
    [calls |-> calls, pc |-> pc, document_id |-> document_id, text |-> text,
     outcome |-> outcome]

NoCall == Call(0, "idle", None, "", NoOutcome)

-----------------------------------------------------------------------------
(* RAGPipelineManager: the job map and the queue *)

\* the entry queue_item creates (lines 86-96); the keys started_at,
\* completed_at and result are absent until the worker sets them. No code
\* reads the value of a time stamp of a job, so a stamp is "set" or absent.
JobRecord(job_id, task_type, target_table, content_type) ==
    [id |-> job_id, status |-> "queued", task_type |-> task_type,
     target_table |-> target_table, queued_at |-> Some("set"),
     metadata |-> [title |-> "Untitled",
                   content_type |-> IF content_type = "absent" THEN task_type
                                    ELSE content_type],
     started_at |-> None, completed_at |-> None, result |-> None]

\* the tuple queue_item puts on the queue (line 99)
QueueTuple(job_id, in) ==
    [job_id |-> job_id, task_type |-> in.task_type, content |-> in.content,
     content_type |-> in.content_type, target_table |-> in.target_table]

\* a put that enqueues the item twice
queue_put_twice(queue, item) == Append(Append(queue, item), item)

\* a put at the front of the queue: the queue of a LifoQueue
queue_put_front(queue, item) == << item >> \o queue

\* a put on a queue of maxsize 1: on a full queue the item is not taken
queue_put_full(queue, item) == IF Len(queue) >= 1 THEN queue ELSE Append(queue, item)

\* the queue after `await self.processing_queue.put(...)` (line 99)
queue_put(queue, item) == Append(queue, item)

\* queue_item(task_type, content, metadata, target_table) (lines 69-101),
\* the arguments drawn from inputs: the queue is unbounded, so put never waits
queue_item(inputs) ==
    /\ Cardinality(DOMAIN active_jobs) < MaxJobs
    /\ \E in \in inputs :
          LET job_id == Cardinality(DOMAIN active_jobs) + 1
          IN  /\ active_jobs' = active_jobs @@
                    (job_id :> JobRecord(job_id, in.task_type, in.target_table,
                                         in.content_type))
              /\ processing_queue' = queue_put(processing_queue, QueueTuple(job_id, in))
    /\ lookup' = NoLookup
    /\ UNCHANGED << started, wpc, wjob, wctx, documents, document_metadata,
                    knowledge_resources, now >>
    /\ UNCHANGED chunk_vars
    /\ UNCHANGED caller_vars

QueueItem == queue_item(JobInputs)

\* get_job_status whose default record reports a job that waits
get_job_status_queued(job_id) ==
    IF job_id \in DOMAIN active_jobs THEN active_jobs[job_id]
    ELSE [id |-> job_id, status |-> "queued"]

\* get_job_status(job_id) (line 113)
get_job_status(job_id) ==
    IF job_id \in DOMAIN active_jobs THEN active_jobs[job_id]
    ELSE [id |-> job_id, status |-> "not_found"]

\* start_workers (lines 41-44), called once by startup_event (api.py 75-80)
StartWorkers ==
    /\ ~started
    /\ started' = TRUE
    /\ wpc' = [w \in Workers |-> "get"]
    /\ lookup' = NoLookup
    /\ UNCHANGED << active_jobs, processing_queue, wjob, wctx, documents,
                    document_metadata, knowledge_resources, now >>
    /\ UNCHANGED chunk_vars
    /\ UNCHANGED caller_vars

-----------------------------------------------------------------------------
(* process_item and the processors *)

\* process_item without its except clause: the exception reaches the worker
process_item_raises(error) == Raised(error)

\* process_item's except clause (lines 158-162): an exception raised below it
\* becomes a failure result
process_item_except(error) == Returned(Failure(error, None))

\* process_document's except clause (lines 260-266)
process_document_except(error) == Returned(Failure(error, None))

\* a failure result that says nothing of its cause
unsupported_task_unexplained(task_type) == Returned(Failure("", None))

\* process_item for a task type it has no branch for (lines 148-152): the
\* text of the error is f"Unsupported task type: {task_type}"
unsupported_task(task_type) == Returned(Failure("Unsupported task type", None))

\* the branch of process_item taken (lines 142-152): task_type.lower() raises
\* AttributeError when task_type is no string
process_item_route(task_type) ==
    IF ~IsString(task_type) THEN "raise"
    ELSE CASE lower(task_type) = "pdf" -> "pdf"
           [] lower(task_type) \in {"website", "url"} -> "website"
           [] lower(task_type) = "resume" -> "resume"
           [] OTHER -> "unsupported"

\* content_type of the merged metadata process_document receives:
\* process_pdf (pdf_processor.py 152-156), process_website
\* (website_processor.py 121-125, 206), process_resume (resume_processor.py 156-162)
merged_content_type(route, content_type) ==
    CASE route = "resume" -> "resume"
      [] route = "pdf" -> IF content_type = "absent" THEN "pdf" ELSE content_type
      [] route = "website" -> IF content_type = "absent" THEN "article"
                              ELSE content_type

\* doc_type[:3] (lines 180-181)
prefix(content_type) ==
    CASE content_type = "article" -> "art"
      [] content_type = "resume" -> "res"
      [] content_type = "pdf" -> "pdf"

\* generate_document_id (lines 159-183): prefix, content hash, the second
generate_document_id(content, content_type) ==
    [prefix |-> prefix(content_type), hash |-> content_hash(content), ts |-> now]

\* What extract_text can return for a content: the text of the document, or,
\* when reading or fetching fails, the error message as the text
\* (pdf_processor.py 31-83, website_processor.py 33-109,
\*  resume_processor.py 79-125)
extract_text(route, content) ==
    CASE route = "website" ->
            IF ContentKind(content) = "url" THEN {content, "error_message"}
            ELSE {"error_message"}
      [] route = "pdf" ->
            IF ContentKind(content) = "pdf_bytes" THEN {content}
            ELSE IF ContentKind(content) = "url" THEN {content, "error_message"}
            ELSE {"error_message"}
      [] route = "resume" ->
            IF ContentKind(content) = "pdf_bytes" THEN {content}
            ELSE {"error_message"}

\* a check that forgets strip()
is_blank_unstripped(text) == text = << >>

\* `not extracted_text or extracted_text.strip() == ""` (line 222)
is_blank(text) == text = << >> \/ strip(text) = << >>

Blank == [tid \in TextIds |-> is_blank(TextOf(tid))]

\* delete_existing_document (lines 185-202): two remote deletes, an exception
\* of either is printed and swallowed. failed_at = 0: both ran; 1: the first
\* raised, nothing deleted; 2: the second raised, the chunk rows are gone and
\* the metadata row is not
delete_existing_document(document_id, failed_at) ==
    [documents |->
        IF failed_at = 1 THEN documents
        ELSE {r \in documents : r.document_id # document_id},
     document_metadata |->
        IF failed_at \in {1, 2} THEN document_metadata
        ELSE {r \in document_metadata : r.id # document_id}]

\* create_embeddings without the fallback: the provider's exception leaves it
create_embeddings_reraise(n_texts, provider_ok) ==
    IF provider_ok
    THEN Embeddings(n_texts, model_dimensions(embedding_model), FALSE)
    ELSE NoEmbeddings

\* create_embeddings(texts) (lines 132-157): the provider's vectors, as long
\* as the configured model makes them, or, when the call raises, one random
\* vector of vector_dimensions per text
create_embeddings(n_texts, provider_ok) ==
    IF provider_ok
    THEN Embeddings(n_texts, model_dimensions(embedding_model), FALSE)
    ELSE Embeddings(n_texts, vector_dimensions, TRUE)

\* the rows store_document_chunks builds (lines 330-344), one per pair of
\* zip(chunks, embeddings); run names the job whose processing wrote the row
chunk_data(document_id, n_chunks, embeddings, run) ==
    { [document_id |-> document_id, chunk_index |-> i, dim |-> embeddings.dim,
       placeholder |-> embeddings.placeholder, run |-> run]
      : i \in 0..(Min(n_chunks, embeddings.count) - 1) }

\* number of insert calls of store_document_chunks (line 348)
n_batches(n_rows) == (n_rows + batch_size - 1) \div batch_size

\* the rows the first k inserts of store_document_chunks wrote (lines 347-350)
inserted_batches(rows, k) == {r \in rows : r.chunk_index < k * batch_size}

-----------------------------------------------------------------------------
(* The worker tasks *)

SetOutcome(w, document_id, text, outcome) ==
    wctx' = [wctx EXCEPT ![w] = Ctx(document_id, text, outcome)]

Route(w) == process_item_route(wjob[w].task_type)

\* _worker, from the return of queue.get() to the first await of the
\* processing (lines 50-57; process_item 129-152): the job becomes
\* 'processing', then process_item picks the processor
Dequeue(w) ==
    /\ wpc[w] = "get"
    /\ processing_queue # << >>
    /\ LET item == Head(processing_queue)
           route == process_item_route(item.task_type)
       IN  /\ processing_queue' = Tail(processing_queue)
           /\ wjob' = [wjob EXCEPT ![w] = item]
           /\ active_jobs' = [active_jobs EXCEPT
                                 ![item.job_id].status = "processing",
                                 ![item.job_id].started_at = Some("set")]
           /\ CASE route = "raise" ->
                     /\ SetOutcome(w, None, "", process_item_except("AttributeError"))
                     /\ wpc' = [wpc EXCEPT ![w] = "finish"]
                [] route = "unsupported" ->
                     /\ SetOutcome(w, None, "", unsupported_task(item.task_type))
                     /\ wpc' = [wpc EXCEPT ![w] = "finish"]
                [] route = "website" ->
                     \* await extract_metadata_from_website (the page is fetched)
                     /\ SetOutcome(w, None, "", NoOutcome)
                     /\ wpc' = [wpc EXCEPT ![w] = "meta"]
                [] route \in {"pdf", "resume"} ->
                     \* process_document: the id, then await extract_text
                     /\ SetOutcome(w,
                            generate_document_id(item.content,
                                merged_content_type(route, item.content_type)),
                            "", NoOutcome)
                     /\ wpc' = [wpc EXCEPT ![w] = "extract"]
    /\ lookup' = NoLookup
    /\ UNCHANGED << started, documents, document_metadata, knowledge_resources, now >>
    /\ UNCHANGED chunk_vars
    /\ UNCHANGED caller_vars

\* process_website after extract_metadata_from_website returned
\* (website_processor.py 203-209), then process_document to its first await
\* (lines 215-220)
FetchMeta(w) ==
    /\ wpc[w] = "meta"
    /\ SetOutcome(w,
           generate_document_id(wjob[w].content,
               merged_content_type("website", wjob[w].content_type)),
           "", NoOutcome)
    /\ wpc' = [wpc EXCEPT ![w] = "extract"]
    /\ lookup' = NoLookup
    /\ UNCHANGED << active_jobs, processing_queue, started, wjob, documents,
                    document_metadata, knowledge_resources, now >>
    /\ UNCHANGED chunk_vars
    /\ UNCHANGED caller_vars

\* process_document from the return of extract_text to the await of
\* create_embeddings (lines 220-243)
Extract(w) ==
    /\ wpc[w] = "extract"
    /\ \E text \in extract_text(Route(w), wjob[w].content), failed_at \in 0..2 :
          LET document_id == wctx[w].document_id
              deleted == delete_existing_document(document_id, failed_at)
          IN  IF Blank[text]
              THEN /\ SetOutcome(w, document_id, text,
                          Returned(Failure("No text could be extracted", document_id)))
                   /\ wpc' = [wpc EXCEPT ![w] = "finish"]
                   /\ UNCHANGED << documents, document_metadata >>
              ELSE /\ documents' = deleted.documents
                   /\ document_metadata' = deleted.document_metadata
                   /\ IF NChunks[text] = 0
                      THEN /\ SetOutcome(w, document_id, text,
                                  Returned(Failure("No text chunks were created",
                                                   document_id)))
                           /\ wpc' = [wpc EXCEPT ![w] = "finish"]
                      ELSE /\ SetOutcome(w, document_id, text, NoOutcome)
                           /\ wpc' = [wpc EXCEPT ![w] = "embed"]
    /\ lookup' = NoLookup
    /\ UNCHANGED << active_jobs, processing_queue, started, wjob,
                    knowledge_resources, now >>
    /\ UNCHANGED chunk_vars
    /\ UNCHANGED caller_vars

\* What the remote calls of store_as_knowledge_resource come to
\* (pdf_processor.py 187-244, website_processor.py 235-302): "ok"; a select
\* raises; the insert of store_knowledge_resource (lines 372-407) fails
PostOutcomes == {"ok", "select_raises", "insert_fails"}

\* store_as_knowledge_resource after process_pdf / process_website returned
\* result: the new resource rows and what it returns
store_as_knowledge_resource(result, docs, run, post) ==
    IF ~result.success
    THEN [rows |-> {}, outcome |-> Returned(result)]
    ELSE IF post = "select_raises"
    THEN [rows |-> {},
          outcome |-> Returned(Failure("Error storing knowledge resource", None))]
    ELSE IF ~\E r \in docs : r.document_id = result.document_id /\ r.chunk_index = 0
    THEN [rows |-> {},
          outcome |-> Returned(Failure("Failed to find document embedding", None))]
    ELSE IF post = "insert_fails"
    THEN [rows |-> {},
          outcome |-> Returned(Result(FALSE, "Failed to insert knowledge resource",
                                      result.document_id, result.chunks_created))]
    ELSE [rows |-> {[document_id |-> result.document_id, run |-> run]},
          outcome |-> Returned(result)]

\* store_document with a compensating delete: when a store call raises, the
\* rows of the document written so far are removed again
store_document_rollback(document_id, text, run, provider_ok, meta_ok, k) ==
    LET embeddings == create_embeddings(NChunks[text], provider_ok)
        rows == chunk_data(document_id, NChunks[text], embeddings, run)
        meta_row == [id |-> document_id, run |-> run]
    IN  IF meta_ok /\ k >= n_batches(Cardinality(rows))
        THEN [documents |-> documents \cup rows,
              document_metadata |-> document_metadata \cup {meta_row},
              embeddings |-> embeddings, inserted |-> n_batches(Cardinality(rows)),
              outcome |-> Returned(Result(TRUE, "", document_id, NChunks[text]))]
        ELSE [documents |-> documents,
              document_metadata |-> document_metadata,
              embeddings |-> embeddings, inserted |-> IF meta_ok THEN k ELSE 0,
              outcome |-> process_document_except(
                              IF meta_ok THEN "chunk insert failed"
                              ELSE "metadata insert failed")]

\* process_document from the return of create_embeddings to its own return
\* (lines 243-266): the tables after it and what it returns. The store calls
\* are synchronous, so nothing else runs in between.
\*   meta_ok: the insert of store_document_metadata succeeds (lines 268-315)
\*   k: the number of inserts of store_document_chunks that succeed before
\*      one raises; all of them when k = n_batches (lines 317-356)
store_document(document_id, text, run, provider_ok, meta_ok, k) ==
    LET embeddings == create_embeddings(NChunks[text], provider_ok)
        rows == chunk_data(document_id, NChunks[text], embeddings, run)
        meta_row == [id |-> document_id, run |-> run]
    IN  IF embeddings.raised
        THEN [documents |-> documents,
              document_metadata |-> document_metadata,
              embeddings |-> NoEmbeddings, inserted |-> 0,
              outcome |-> process_document_except("embedding failed")]
        ELSE IF ~meta_ok
        THEN [documents |-> documents,
              document_metadata |-> document_metadata,
              embeddings |-> embeddings, inserted |-> 0,
              outcome |-> process_document_except("metadata insert failed")]
        ELSE IF k < n_batches(Cardinality(rows))
        THEN [documents |-> documents \cup inserted_batches(rows, k),
              document_metadata |-> document_metadata \cup {meta_row},
              embeddings |-> embeddings, inserted |-> k,
              outcome |-> process_document_except("chunk insert failed")]
        ELSE [documents |-> documents \cup rows,
              document_metadata |-> document_metadata \cup {meta_row},
              embeddings |-> embeddings, inserted |-> n_batches(Cardinality(rows)),
              outcome |-> Returned(Result(TRUE, "", document_id, NChunks[text]))]

\* the processing of a job from the return of create_embeddings to the
\* return of process_item (document_processor.py 243-266;
\* pipeline_manager.py 154-156, 164-170, 298-300, 308-314, 443-445, 466-472)
EmbedAndStore(w) ==
    /\ wpc[w] = "embed"
    /\ \E provider_ok \in BOOLEAN, meta_ok \in BOOLEAN,
          k \in 0..n_batches(NChunks[wctx[w].text]), post \in PostOutcomes :
          LET stored == store_document(wctx[w].document_id, wctx[w].text,
                                       wjob[w].job_id, provider_ok, meta_ok, k)
              resource ==
                 IF Route(w) \in {"pdf", "website"}
                    /\ wjob[w].target_table = "knowledge_resources"
                 THEN store_as_knowledge_resource(stored.outcome.value,
                          stored.documents, wjob[w].job_id, post)
                 ELSE [rows |-> {}, outcome |-> stored.outcome]
          IN  /\ documents' = stored.documents
              /\ document_metadata' = stored.document_metadata
              /\ knowledge_resources' = knowledge_resources \cup resource.rows
              /\ wctx' = [wctx EXCEPT
                            ![w].provider = IF provider_ok THEN "ok" ELSE "raised",
                            ![w].embeddings = stored.embeddings,
                            ![w].inserted = stored.inserted,
                            ![w].outcome = resource.outcome]
    /\ wpc' = [wpc EXCEPT ![w] = "finish"]
    /\ lookup' = NoLookup
    /\ UNCHANGED << active_jobs, processing_queue, started, wjob, now >>
    /\ UNCHANGED chunk_vars
    /\ UNCHANGED caller_vars

\* a worker whose loop ends when a job fails
after_job_exits(outcome) ==
    IF outcome.raised \/ ~outcome.value.success THEN "dead" ELSE "get"

\* where the worker goes after a job: `while True`, and the except clause
\* keeps the loop alive (lines 48, 64-67)
after_job(outcome) == "get"

\* a worker that goes on without its last writes
finished_job_unwritten(job, outcome) == job

\* a worker that hands a failed job back for another attempt
finished_job_requeue(job, outcome) ==
    IF outcome.raised THEN job
    ELSE [job EXCEPT !.status = IF outcome.value.success THEN "completed"
                                ELSE "queued",
                     !.completed_at = Some("set"),
                     !.result = Some(outcome.value)]

\* the job record after the worker's last writes (lines 60-62); when
\* process_item raised, the except clause only prints (lines 64-65)
finished_job(job, outcome) ==
    IF outcome.raised THEN job
    ELSE [job EXCEPT !.status = IF outcome.value.success THEN "completed"
                                ELSE "failed",
                     !.completed_at = Some("set"),
                     !.result = Some(outcome.value)]

\* a worker that drops the entry of a job it finished
jobs_after_finish_drop(jobs, job_id, outcome) ==
    [j \in DOMAIN jobs \ {job_id} |-> jobs[j]]

\* self.active_jobs after those writes: they go to the entry of job_id
jobs_after_finish(jobs, job_id, outcome) ==
    [jobs EXCEPT ![job_id] = finished_job(@, outcome)]

\* _worker after process_item returned (lines 57-67)
Finish(w) ==
    /\ wpc[w] = "finish"
    /\ active_jobs' = jobs_after_finish(active_jobs, wjob[w].job_id, wctx[w].outcome)
    /\ wpc' = [wpc EXCEPT ![w] = after_job(wctx[w].outcome)]
    /\ wjob' = [wjob EXCEPT ![w] = NoItem]
    /\ wctx' = [wctx EXCEPT ![w] = NoCtx]
    /\ lookup' = NoLookup
    /\ UNCHANGED << processing_queue, started, documents, document_metadata,
                    knowledge_resources, now >>
    /\ UNCHANGED chunk_vars
    /\ UNCHANGED caller_vars

\* a second passes
Tick ==
    /\ now < MaxTime
    /\ now' = now + 1
    /\ lookup' = NoLookup
    /\ UNCHANGED << active_jobs, processing_queue, started, wpc, wjob, wctx,
                    documents, document_metadata, knowledge_resources >>
    /\ UNCHANGED chunk_vars
    /\ UNCHANGED caller_vars

-----------------------------------------------------------------------------
(* process_document called directly, outside the manager, on an instance of
   a subclass of DocumentProcessor whose extract_text can return any text *)

\* await processor.process_document(content, metadata), to its first await
\* (lines 215-220); the metadata carry content_type 'article'
DirectCall ==
    /\ pd.pc \in {"idle", "returned"}
    /\ pd.calls < MaxCalls
    /\ \E content \in Contents :
          pd' = Call(pd.calls + 1, "extract",
                     generate_document_id(content, "article"), "", NoOutcome)
    /\ UNCHANGED << active_jobs, processing_queue, started, wpc, wjob, wctx,
                    documents, document_metadata, knowledge_resources, now,
                    lookup, embedding_model, last_http,
                    search, limiter, submitted >>
    /\ UNCHANGED chunk_vars

\* process_document from the return of extract_text to the await of
\* create_embeddings, or to its return (lines 220-243)
DirectExtract ==
    /\ pd.pc = "extract"
    /\ \E text \in TextIds, failed_at \in 0..2 :
          LET deleted == delete_existing_document(pd.document_id, failed_at)
          IN  IF Blank[text]
              THEN /\ pd' = Call(pd.calls, "returned", pd.document_id, text,
                             Returned(Failure("No text could be extracted",
                                              pd.document_id)))
                   /\ UNCHANGED << documents, document_metadata >>
              ELSE /\ documents' = deleted.documents
                   /\ document_metadata' = deleted.document_metadata
                   /\ IF NChunks[text] = 0
                      THEN pd' = Call(pd.calls, "returned", pd.document_id, text,
                                      Returned(Failure("No text chunks were created",
                                                       pd.document_id)))
                      ELSE pd' = Call(pd.calls, "embed", pd.document_id, text,
                                      NoOutcome)
    /\ UNCHANGED << active_jobs, processing_queue, started, wpc, wjob, wctx,
                    knowledge_resources, now, lookup, embedding_model, last_http,
                    search, limiter, submitted >>
    /\ UNCHANGED chunk_vars

\* process_document from the return of create_embeddings to its return
\* (lines 243-266)
DirectEmbedAndStore ==
    /\ pd.pc = "embed"
    /\ \E provider_ok \in BOOLEAN, meta_ok \in BOOLEAN,
          k \in 0..n_batches(NChunks[pd.text]) :
          LET stored == store_document(pd.document_id, pd.text, pd.calls,
                                       provider_ok, meta_ok, k)
          IN  /\ documents' = stored.documents
              /\ document_metadata' = stored.document_metadata
              /\ pd' = Call(pd.calls, "returned", pd.document_id, pd.text,
                            stored.outcome)
    /\ UNCHANGED << active_jobs, processing_queue, started, wpc, wjob, wctx,
                    knowledge_resources, now, lookup, embedding_model, last_http,
                    search, limiter, submitted >>
    /\ UNCHANGED chunk_vars

-----------------------------------------------------------------------------
(* The HTTP handlers that read the job map (api.py) *)

Response(op, id, status, http, count) ==
    [op |-> op, id |-> id, status |-> status, http |-> http, count |-> count]

\* GET /status/{job_id} (api.py 372-403) for a caller with a valid token:
\* the record of the manager's get_job_status, and HTTPException 404 raised
\* when the manager reports 'not_found'
ApiGetJobStatus ==
    /\ \E job_id \in LookupIds :
          LET status == get_job_status(job_id)
          IN  lookup' = Response("status", job_id, status.status,
                                 IF status.status = "not_found" THEN 404 ELSE 200, 0)
    /\ UNCHANGED << active_jobs, processing_queue, started, wpc, wjob, wctx,
                    documents, document_metadata, knowledge_resources, now >>
    /\ UNCHANGED chunk_vars
    /\ UNCHANGED caller_vars

\* the jobs list_jobs keeps (api.py 431-442): the records carry no user_id
\* under 'metadata' (pipeline_manager.py 92-95), so .get('user_id') is None
list_jobs(is_admin, status) ==
    LET visible == IF is_admin THEN DOMAIN active_jobs
                   ELSE {j \in DOMAIN active_jobs :
                            "user_id" \in DOMAIN active_jobs[j].metadata}
    IN  IF status = "" THEN visible
        ELSE {j \in visible : active_jobs[j].status = status}

\* GET /jobs (api.py 405-459) for a caller with a valid token
ApiListJobs ==
    /\ \E is_admin \in BOOLEAN, status \in {"", "queued"} :
          lookup' = Response("jobs", 0, status, 200,
                             Cardinality(list_jobs(is_admin, status)))
    /\ UNCHANGED << active_jobs, processing_queue, started, wpc, wjob, wctx,
                    documents, document_metadata, knowledge_resources, now >>
    /\ UNCHANGED chunk_vars
    /\ UNCHANGED caller_vars

\* GET /health (api.py 92-119): 503 when the remote select raises
HealthCheck ==
    /\ \E remote_ok \in BOOLEAN :
          lookup' = IF remote_ok
                    THEN Response("health", 0, "healthy", 200,
                                  Cardinality(DOMAIN active_jobs))
                    ELSE Response("health", 0, "unhealthy", 503, 0)
    /\ UNCHANGED << active_jobs, processing_queue, started, wpc, wjob, wctx,
                    documents, document_metadata, knowledge_resources, now >>
    /\ UNCHANGED chunk_vars
    /\ UNCHANGED caller_vars

-----------------------------------------------------------------------------
(* The HTTP surface with its token check (api.py) *)

\* The Authorization header of a request, as the words between its single
\* spaces (authorization.split(" ")); NoHeader when the request has none
NoHeader == None

AuthHeaders ==
    { NoHeader, << "" >>, << "Basic", "valid-user" >>, << "Bearer", "" >>,
      << "Bearer", "valid-user" >>, << "Bearer", "valid-admin" >>,
      << "Bearer", "expired" >>, << "Bearer", "test-token" >> }

\* authorization.startswith("Bearer ") (line 131)
starts_with_bearer(authorization) ==
    Len(authorization) >= 2 /\ authorization[1] = "Bearer"

\* The tokens the auth provider holds a user for, with the user's id and the
\* profile_type of the user's row in consolidated_profiles
ProviderUsers ==
    [token \in {"valid-user", "valid-admin"} |->
        IF token = "valid-admin"
        THEN [user_id |-> "admin-id", profile_type |-> "admin"]
        ELSE [user_id |-> "user-id", profile_type |-> "user"]]

\* What supabase.auth.get_user(token) can come to (lines 137-142): "user",
\* a user is returned; "no_user", the response holds none; "raises"
get_user(token) ==
    IF token \in DOMAIN ProviderUsers THEN {"user", "raises"}
    ELSE {"no_user", "raises"}

\* What the provider can answer to a request: it is not asked when
\* validate_token refuses the header itself
provider_outcomes(authorization) ==
    IF authorization # NoHeader /\ starts_with_bearer(authorization)
    THEN get_user(authorization[2])
    ELSE {"not_asked"}

Identity(user_id, profile_type) ==
    [user_id |-> user_id, profile_type |-> profile_type]

Granted(identity) == [code |-> 200, identity |-> Some(identity)]
Refused(code) == [code |-> code, identity |-> None]

\* a validate_token that takes every Bearer header for the user it names
validate_token_any_bearer(authorization, provider, profile_ok) ==
    IF starts_with_bearer(authorization)
    THEN Granted(Identity(authorization[2], "user"))
    ELSE Refused(401)

\* validate_token(authorization) (lines 121-170): the identity it returns, or
\* the status of the HTTPException it raises. The `raise HTTPException(401)`
\* of line 142 is inside the try and is caught by `except Exception`.
\*   provider: what get_user came to; profile_ok: the profile select worked
validate_token(authorization, provider, profile_ok) ==
    IF ~starts_with_bearer(authorization)
    THEN Refused(401)
    ELSE LET token == authorization[2]
         IN  IF provider = "user" /\ profile_ok
             THEN Granted(ProviderUsers[token])
             ELSE IF token = "test-token"
             THEN Granted(Identity("test-user-id", "admin"))
             ELSE Refused(401)

\* `authorization: str = Header(...)` of a handler, then its
\* `await validate_token(authorization)`: a request without the header is
\* answered 422 before the handler runs
authorize(authorization, provider, profile_ok) ==
    IF authorization = NoHeader THEN Refused(422)
    ELSE validate_token(authorization, provider, profile_ok)

\* A request and its response: the endpoint, the header, what the provider
\* said, the status code, the identity validate_token returned, and what the
\* body tells of the jobs (a job id, a status, a count)
Exchange(op, authorization, provider, code, identity, job_id, status, count) ==
    [op |-> op, authorization |-> authorization, provider |-> provider,
     code |-> code, identity |-> identity, job_id |-> job_id,
     status |-> status, count |-> count, jobs |-> << >>]

NoExchange == Exchange("", NoHeader, "", 0, None, 0, "", 0)

\* a response that tells nothing of the jobs
Error(op, authorization, provider, code, identity) ==
    Exchange(op, authorization, provider, code, identity, 0, "", 0)

\* The forms POST /process is called with: file name, url, target_table
ProcessForms ==
    { [file |-> "", url |-> "url_short", target_table |-> "knowledge_resources"],
      [file |-> "doc.pdf", url |-> "", target_table |-> "documents"],
      [file |-> "doc.txt", url |-> "", target_table |-> "knowledge_resources"],
      [file |-> "", url |-> "", target_table |-> "knowledge_resources"] }

\* filename.split('.')[-1].lower() (api.py 240-241)
extension(filename) ==
    CASE filename \in {"doc.pdf", "cv.pdf", "CV.PDF"} -> "pdf"
      [] filename = "doc.txt" -> "txt"
      [] filename = "cv.docx" -> "docx"

\* additional_metadata of POST /process: absent (""), JSON objects, JSON
\* that is no object, and text that is no JSON
AdditionalMetadata ==
    {"", "{\"tags\": \"green\"}",
     "{\"user_id\": \"admin-id\", \"profile_type\": \"admin\"}", "[1]", "{"}

\* json.loads(additional_metadata) (line 232): the dict, a value that is no
\* dict, or JSONDecodeError
json_loads(text) ==
    CASE text = "{\"tags\": \"green\"}" ->
            [kind |-> "dict", value |-> [tags |-> "green"]]
      [] text = "{\"user_id\": \"admin-id\", \"profile_type\": \"admin\"}" ->
            [kind |-> "dict",
             value |-> [user_id |-> "admin-id", profile_type |-> "admin"]]
      [] text = "[1]" -> [kind |-> "list", value |-> [tags |-> ""]]
      [] text = "{" -> [kind |-> "JSONDecodeError", value |-> [tags |-> ""]]

\* metadata.update(extra) (line 233): the keys of extra replace those of metadata
update(metadata, extra) ==
    [key \in DOMAIN metadata \cup DOMAIN extra |->
        IF key \in DOMAIN extra THEN extra[key] ELSE metadata[key]]

\* a call of queue_item by a handler: the authenticated caller and, of the
\* metadata argument, the keys that tell whose the content is
Submission(caller, metadata) == [caller |-> caller, metadata |-> metadata]

\* the job map and the queue after pipeline_manager.queue_item(...) of a
\* handler (pipeline_manager.py 69-101)
enqueue(in) ==
    LET job_id == Cardinality(DOMAIN active_jobs) + 1
    IN  /\ active_jobs' = active_jobs @@
              (job_id :> JobRecord(job_id, in.task_type, in.target_table,
                                   in.content_type))
        /\ processing_queue' = queue_put(processing_queue, QueueTuple(job_id, in))

\* POST /process (lines 172-278), the requests drawn from the sets given
post_process(headers, forms, additional) ==
    /\ \E authorization \in headers, profile_ok \in BOOLEAN,
          form \in forms, additional_metadata \in additional :
        \E provider \in provider_outcomes(authorization) :
          LET auth == authorize(authorization, provider, profile_ok)
              in == IF form.file # ""
                    THEN [task_type |-> "pdf", content |-> "pdf_long",
                          content_type |-> "article",
                          target_table |-> form.target_table]
                    ELSE [task_type |-> "website", content |-> form.url,
                          content_type |-> "article",
                          target_table |-> form.target_table]
              built == [content_type |-> "article",
                        user_id |-> auth.identity[1].user_id,
                        profile_type |-> auth.identity[1].profile_type]
              extra == json_loads(additional_metadata)
              metadata == IF additional_metadata = "" THEN built
                          ELSE update(built, extra.value)
              refuse(code) ==
                  /\ last_http' = Error("process", authorization, provider, code,
                                        auth.identity)
                  /\ UNCHANGED << active_jobs, processing_queue, submitted >>
          IN  IF auth.identity = None
              THEN refuse(auth.code)
              ELSE IF /\ form.target_table # "knowledge_resources"
                      /\ auth.identity[1].profile_type \notin {"admin", "partner"}
              THEN refuse(403)
              ELSE IF form.file = "" /\ form.url = ""
              THEN refuse(400)
              ELSE IF additional_metadata # "" /\ extra.kind = "JSONDecodeError"
              THEN refuse(400)
              ELSE IF additional_metadata # "" /\ extra.kind # "dict"
              THEN refuse(500)
              ELSE IF form.file # "" /\ extension(form.file) # "pdf"
              THEN refuse(400)
              ELSE /\ Cardinality(DOMAIN active_jobs) < MaxJobs
                   /\ enqueue(in)
                   /\ submitted' = submitted @@
                         ((Cardinality(DOMAIN active_jobs) + 1) :>
                             Submission(auth.identity[1], metadata))
                   /\ last_http' = Exchange("process", authorization, provider, 200,
                                       auth.identity,
                                       Cardinality(DOMAIN active_jobs) + 1,
                                       "queued", 0)
    /\ UNCHANGED << started, wpc, wjob, wctx, documents, document_metadata,
                    knowledge_resources, now, lookup, embedding_model, pd, search,
                    limiter >>
    /\ UNCHANGED chunk_vars

HttpProcess == post_process(AuthHeaders, ProcessForms, {""})

\* POST /resume/upload (lines 280-335)
post_resume_upload(headers) ==
    /\ \E authorization \in headers, profile_ok \in BOOLEAN,
          filename \in {"CV.PDF", "cv.docx"} :
        \E provider \in provider_outcomes(authorization) :
          LET auth == authorize(authorization, provider, profile_ok)
              in == [task_type |-> "resume", content |-> "pdf_long",
                     content_type |-> "resume", target_table |-> "None"]
              metadata == [content_type |-> "resume",
                           user_id |-> auth.identity[1].user_id]
          IN  IF auth.identity = None
              THEN /\ last_http' = Error("resume", authorization, provider,
                                    auth.code, None)
                   /\ UNCHANGED << active_jobs, processing_queue, submitted >>
              ELSE IF extension(filename) # "pdf"
              THEN /\ last_http' = Error("resume", authorization, provider, 400,
                                    auth.identity)
                   /\ UNCHANGED << active_jobs, processing_queue, submitted >>
              ELSE /\ Cardinality(DOMAIN active_jobs) < MaxJobs
                   /\ enqueue(in)
                   /\ submitted' = submitted @@
                         ((Cardinality(DOMAIN active_jobs) + 1) :>
                             Submission(auth.identity[1], metadata))
                   /\ last_http' = Exchange("resume", authorization, provider, 200,
                                       auth.identity,
                                       Cardinality(DOMAIN active_jobs) + 1,
                                       "queued", 0)
    /\ UNCHANGED << started, wpc, wjob, wctx, documents, document_metadata,
                    knowledge_resources, now, lookup, embedding_model, pd, search,
                    limiter >>
    /\ UNCHANGED chunk_vars

HttpResumeUpload == post_resume_upload(AuthHeaders)

\* The items of POST /batch: an item is a dict; a key it lacks is "absent".
\* 'metadata' is a dict, or a value that is no dict ("text")
BatchItems ==
    { [task_type |-> "website", content |-> "url_short",
       target_table |-> "documents",
       metadata |-> [kind |-> "dict",
                     value |-> [user_id |-> "user-id", profile_type |-> "user"]]],
      [task_type |-> "absent", content |-> "absent", target_table |-> "absent",
       metadata |-> [kind |-> "absent", value |-> [tags |-> ""]]],
      [task_type |-> "pdf", content |-> "pdf_long", target_table |-> "absent",
       metadata |-> [kind |-> "text", value |-> [tags |-> ""]]] }

\* the bodies of POST /batch: lists of at most two items
Batches ==
    {<< >>} \cup {<< item >> : item \in BatchItems}
            \cup {<< a, b >> : a \in BatchItems, b \in BatchItems}

\* item.get(key, default)
get(item, key, default) == IF item[key] = "absent" THEN default ELSE item[key]

\* the arguments of the queue_item call for an item (lines 506-511); the
\* content of an item without one is the empty string
batch_input(item) ==
    [task_type |-> get(item, "task_type", "unknown"),
     content |-> get(item, "content", "empty"),
     content_type |-> "absent",
     target_table |-> get(item, "target_table", "knowledge_resources")]

\* the metadata of an item after lines 501-503: item.get('metadata', {}) with
\* user_id and profile_type set to the caller's
batch_metadata(item, caller) ==
    LET stamp == [user_id |-> caller.user_id,
                  profile_type |-> caller.profile_type]
    IN  IF item.metadata.kind = "absent" THEN stamp
        ELSE update(item.metadata.value, stamp)

\* the number of items the loop of lines 499-512 enqueues: those before the
\* first whose 'metadata' takes no item assignment
RECURSIVE accepted(_)
accepted(items) ==
    IF items = << >> \/ Head(items).metadata.kind = "text" THEN 0
    ELSE 1 + accepted(Tail(items))

\* the queue after the puts of the items numbered from job_id on
RECURSIVE put_all(_, _, _)
put_all(queue, items, job_id) ==
    IF items = << >> THEN queue
    ELSE put_all(queue_put(queue, QueueTuple(job_id, batch_input(Head(items)))),
                 Tail(items), job_id + 1)

\* POST /batch (lines 461-524): every item is enqueued in turn; an exception
\* in the loop is answered 500 with the items before it enqueued
post_batch(headers, batches) ==
    /\ \E authorization \in headers, profile_ok \in BOOLEAN,
          items \in batches :
        \E provider \in provider_outcomes(authorization) :
          LET auth == authorize(authorization, provider, profile_ok)
              count == accepted(items)
              first == Cardinality(DOMAIN active_jobs) + 1
              ids == first..(first + count - 1)
              refuse(code) ==
                  /\ last_http' = Error("batch", authorization, provider, code,
                                        auth.identity)
                  /\ UNCHANGED << active_jobs, processing_queue, submitted >>
          IN  IF auth.identity = None
              THEN refuse(auth.code)
              ELSE IF auth.identity[1].profile_type \notin {"admin", "partner"}
              THEN refuse(403)
              ELSE IF items = << >>
              THEN refuse(400)
              ELSE /\ Cardinality(DOMAIN active_jobs) + count <= MaxJobs
                   /\ active_jobs' = active_jobs @@
                         [job_id \in ids |->
                             LET in == batch_input(items[job_id - first + 1])
                             IN  JobRecord(job_id, in.task_type, in.target_table,
                                           in.content_type)]
                   /\ processing_queue' = put_all(processing_queue,
                                                  SubSeq(items, 1, count), first)
                   /\ submitted' = submitted @@
                         [job_id \in ids |->
                             Submission(auth.identity[1],
                                        batch_metadata(items[job_id - first + 1],
                                                       auth.identity[1]))]
                   /\ last_http' = IF count < Len(items)
                                   THEN Error("batch", authorization, provider,
                                              500, auth.identity)
                                   ELSE Exchange("batch", authorization, provider,
                                                 200, auth.identity, first,
                                                 "queued", count)
    /\ UNCHANGED << started, wpc, wjob, wctx, documents, document_metadata,
                    knowledge_resources, now, lookup, embedding_model, pd, search,
                    limiter >>
    /\ UNCHANGED chunk_vars

\* POST /batch with an empty list and with one item of defaults
HttpBatch ==
    post_batch(AuthHeaders,
               {batch \in Batches :
                   /\ Len(batch) <= 1
                   /\ \A i \in DOMAIN batch : batch[i].task_type = "absent"})

\* GET /status/{job_id} (lines 372-403)
HttpStatus ==
    /\ \E authorization \in AuthHeaders, profile_ok \in BOOLEAN,
          job_id \in LookupIds :
        \E provider \in provider_outcomes(authorization) :
          LET auth == authorize(authorization, provider, profile_ok)
              status == get_job_status(job_id)
          IN  last_http' = IF auth.identity = None
                      THEN Error("status", authorization, provider, auth.code,
                                 None)
                      ELSE Exchange("status", authorization, provider,
                                    IF status.status = "not_found" THEN 404
                                    ELSE 200,
                                    auth.identity, job_id, status.status, 0)
    /\ UNCHANGED << active_jobs, processing_queue, started, wpc, wjob, wctx,
                    documents, document_metadata, knowledge_resources, now,
                    lookup, embedding_model, pd, search,
                    limiter, submitted >>
    /\ UNCHANGED chunk_vars

\* jobs.sort(key=queued_at, reverse=True) (line 445): the jobs given, the
\* one queued last first; a job id is the ordinal of its queue_item call
sorted_jobs(jobs) ==
    CHOOSE seq \in [1..Cardinality(jobs) -> jobs] :
        \A i, j \in 1..Cardinality(jobs) : i < j => seq[i] > seq[j]

\* jobs[offset:offset + limit] (line 448)
paginate(jobs, offset, limit) ==
    SubSeq(jobs, offset + 1, Min(Len(jobs), offset + limit))

\* the queries of GET /jobs: limit (default 10) and offset (default 0)
Pages == {[limit |-> 1, offset |-> 0], [limit |-> 1, offset |-> 1],
          [limit |-> 10, offset |-> 0], [limit |-> 0, offset |-> 0]}

\* the response of GET /jobs: total_count and the ids of the jobs listed
JobsExchange(authorization, provider, identity, status, total_count, jobs) ==
    [Exchange("jobs", authorization, provider, 200, identity, 0, status,
              total_count) EXCEPT !.jobs = jobs]

\* GET /jobs (lines 405-459); a limit outside 1..100 is answered 422 before
\* the handler runs
get_jobs(headers, pages) ==
    /\ \E authorization \in headers, profile_ok \in BOOLEAN,
          status \in {"", "queued"}, page \in pages :
        \E provider \in provider_outcomes(authorization) :
          LET auth == authorize(authorization, provider, profile_ok)
              jobs == sorted_jobs(list_jobs(
                          auth.identity[1].profile_type = "admin", status))
          IN  last_http' =
                  IF authorization = NoHeader \/ page.limit \notin 1..100
                  THEN Error("jobs", authorization, provider, 422, None)
                  ELSE IF auth.identity = None
                  THEN Error("jobs", authorization, provider, auth.code, None)
                  ELSE JobsExchange(authorization, provider, auth.identity,
                                    status, Len(jobs),
                                    paginate(jobs, page.offset, page.limit))
    /\ UNCHANGED << active_jobs, processing_queue, started, wpc, wjob, wctx,
                    documents, document_metadata, knowledge_resources, now,
                    lookup, embedding_model, pd, search,
                    limiter, submitted >>
    /\ UNCHANGED chunk_vars

HttpJobs == get_jobs(AuthHeaders, {[limit |-> 10, offset |-> 0]})

\* The callers where the subject is whose the jobs are: a user and an admin
\* with valid tokens
CallerHeaders == {<< "Bearer", "valid-user" >>, << "Bearer", "valid-admin" >>}

CallerProcess == post_process(CallerHeaders, ProcessForms, AdditionalMetadata)

CallerResumeUpload == post_resume_upload(CallerHeaders)

CallerBatch == post_batch(CallerHeaders, Batches)

CallerJobs == get_jobs(CallerHeaders, Pages)

\* GET /health (lines 92-119): the handler takes no Authorization header;
\* whatever the request carries, it answers with the number of jobs, or
\* with 503 when the remote select raises
HttpHealth ==
    /\ \E authorization \in AuthHeaders, remote_ok \in BOOLEAN :
          last_http' = IF remote_ok
                  THEN Exchange("health", authorization, "not_asked", 200, None,
                                0, "healthy", Cardinality(DOMAIN active_jobs))
                  ELSE Error("health", authorization, "not_asked", 503, None)
    /\ UNCHANGED << active_jobs, processing_queue, started, wpc, wjob, wctx,
                    documents, document_metadata, knowledge_resources, now,
                    lookup, embedding_model, pd, search,
                    limiter, submitted >>
    /\ UNCHANGED chunk_vars

-----------------------------------------------------------------------------
(* The similarity searches (document_processor.py 510-539,
   resume_processor.py 375-439) and the remote functions they call *)

\* 'match_threshold': 0.5, in tenths; similarities are in tenths as well
match_threshold == 5

\* the limits a search is called with; 5 is the default
Limits == {1, 2, 5}

\* user_id of search_resume_content: None, or Some of a string
UserIds == {None, Some(""), Some("u1"), Some("u2")}

\* `if user_id` of Python
truthy(user_id) == user_id # None /\ user_id[1] # ""

\* a row of a searched table with its similarity to the query
Row(id, user_id, document_type, similarity) ==
    [id |-> id, user_id |-> user_id, document_type |-> document_type,
     similarity |-> similarity]

\* The rows of table documents, nearest to the query first, as some queries
\* find them
DocTables ==
    { << >>,
      << Row("d1", "u2", "resume", 9), Row("d2", "u1", "article", 8),
         Row("d3", "u1", "resume", 7), Row("d4", "u1", "resume", 6),
         Row("d5", "u2", "resume", 3) >>,
      << Row("d2", "u1", "article", 8), Row("d6", "u2", "article", 6) >> }

\* The rows of table resumes, nearest to the query first
ResumeTables ==
    { << >>,
      << Row("r1", "u1", "resume", 9), Row("r2", "u2", "resume", 8),
         Row("r3", "u1", "resume", 6), Row("r4", "u1", "resume", 4) >> }

\* The remote functions match_documents and match_resume_content
\* (apply_vector_fixes.py 75-111): the rows above the threshold, of the
\* user when one is given, in the order of the distance, at most match_count
match(table, params, user_id_param) ==
    LET Matches(r) == /\ r.similarity > params.match_threshold
                      /\ user_id_param = None \/ r.user_id = user_id_param[1]
        found == SelectSeq(table, Matches)
    IN  SubSeq(found, 1, Min(Len(found), params.match_count))

\* rpc_params with the default limit whatever the caller asked for
rpc_params_default(query_embedding, limit) ==
    [query_embedding |-> query_embedding, match_threshold |-> match_threshold,
     match_count |-> 5]

\* rpc_params (document_processor.py 526-530, resume_processor.py 420-424)
rpc_params(query_embedding, limit) ==
    [query_embedding |-> query_embedding, match_threshold |-> match_threshold,
     match_count |-> limit]

\* One remote call of a search: the function, its parameters, and what came
\* back: "rows", "empty" or "raised"
Rpc(fn, params, user_id_param, outcome) ==
    [fn |-> fn, params |-> params, user_id_param |-> user_id_param,
     outcome |-> outcome]

\* query_embedding[0] of the list create_embeddings returned
query_embedding(embeddings) ==
    [dim |-> embeddings.dim, placeholder |-> embeddings.placeholder]

\* A search call: its arguments, the number of create_embeddings calls, the
\* remote calls in their order, the rows returned, and whether it raised
Search(op, user_id, limit, embedded, rpcs, rows, raised) ==
    [op |-> op, user_id |-> user_id, limit |-> limit, embedded |-> embedded,
     rpcs |-> rpcs, rows |-> rows, raised |-> raised]

NoSearch == Search("", None, 0, 0, << >>, << >>, FALSE)

\* the dict search_resume_content makes of a row of match_resume_content
\* (resume_processor.py 408-413): the function returns no resume_id
resume_chunk(doc) ==
    [content |-> doc.id,
     metadata |-> [document_type |-> doc.document_type],
     similarity |-> doc.similarity, resume_id |-> ""]

resume_chunks(docs) == [i \in 1..Len(docs) |-> resume_chunk(docs[i])]

\* the filter of the fallback (resume_processor.py 429-439)
resume_documents(docs, user_id) ==
    LET Keep(doc) == /\ doc.document_type = "resume"
                     /\ ~(truthy(user_id) /\ doc.user_id # user_id[1])
    IN  SelectSeq(docs, Keep)

\* search_document_content(query, limit) (document_processor.py 510-539)
SearchDocumentContent ==
    /\ \E limit \in Limits, provider_ok \in BOOLEAN, table \in DocTables,
          rpc_ok \in BOOLEAN :
          LET embeddings == create_embeddings(1, provider_ok)
              params == rpc_params(query_embedding(embeddings), limit)
              data == match(table, params, None)
          IN  search' =
                IF rpc_ok
                THEN Search("document", None, limit, 1,
                            << Rpc("match_documents", params, None,
                                   IF data = << >> THEN "empty" ELSE "rows") >>,
                            data, FALSE)
                ELSE Search("document", None, limit, 1,
                            << Rpc("match_documents", params, None, "raised") >>,
                            << >>, FALSE)
    /\ UNCHANGED << active_jobs, processing_queue, started, wpc, wjob, wctx,
                    documents, document_metadata, knowledge_resources, now,
                    lookup, embedding_model, pd, last_http,
                    limiter, submitted >>
    /\ UNCHANGED chunk_vars

\* search_resume_content(query, user_id, limit) (resume_processor.py 375-439)
SearchResumeContent ==
    /\ \E user_id \in UserIds, limit \in Limits, provider_ok \in BOOLEAN,
          resumes \in ResumeTables, docs \in DocTables,
          first_ok \in BOOLEAN, second_ok \in BOOLEAN :
          LET embeddings == create_embeddings(1, provider_ok)
              params == rpc_params(query_embedding(embeddings), limit)
              user_id_param == IF truthy(user_id) THEN user_id ELSE None
              first == match(resumes, params, user_id_param)
              first_rpc == Rpc("match_resume_content", params, user_id_param,
                               IF ~first_ok THEN "raised"
                               ELSE IF first = << >> THEN "empty" ELSE "rows")
              second == match(docs, params, None)
              second_rpc == Rpc("match_documents", params, None,
                                IF ~second_ok THEN "raised"
                                ELSE IF second = << >> THEN "empty" ELSE "rows")
          IN  search' =
                IF first_ok /\ first # << >>
                THEN Search("resume", user_id, limit, 1, << first_rpc >>,
                            resume_chunks(first), FALSE)
                ELSE IF second_ok
                THEN Search("resume", user_id, limit, 1,
                            << first_rpc, second_rpc >>,
                            resume_documents(second, user_id), FALSE)
                ELSE Search("resume", user_id, limit, 1,
                            << first_rpc, second_rpc >>, << >>, TRUE)
    /\ UNCHANGED << active_jobs, processing_queue, started, wpc, wjob, wctx,
                    documents, document_metadata, knowledge_resources, now,
                    lookup, embedding_model, pd, last_http,
                    limiter, submitted >>
    /\ UNCHANGED chunk_vars

-----------------------------------------------------------------------------
(* The rate limiter (backend_agent_api/rate_limiter.py). Times are in half
   seconds, so that requests can arrive between two full seconds. *)

\* `current_time - timestamp >= 60` (line 90), in seconds
window == 60
\* `self.cleanup_counter >= 100` (line 80)
cleanup_every == 100
\* `current_time - timestamp > 120` (line 121), in seconds
cleanup_age == 120

\* The instants, in half seconds, at which requests arrive: 0 s, 0.5 s,
\* 59.5 s, 60 s and 120.5 s; time.time() does not run backwards
Instants == << 0, 1, 119, 120, 241 >>

\* The requests: user_id of request.state, the X-Forwarded-For header and
\* request.client.host ("" when absent)
ClientRequests ==
    { [user_id |-> "u1", forwarded_for |-> "", host |-> "10.0.0.1"],
      [user_id |-> "", forwarded_for |-> "1.2.3.4, 10.0.0.1", host |-> "10.0.0.1"],
      [user_id |-> "", forwarded_for |-> "", host |-> "1.2.3.4"] }

\* forwarded_for.split(",")[0].strip() (line 59)
first_forwarded(forwarded_for) ==
    CASE forwarded_for = "1.2.3.4, 10.0.0.1" -> "1.2.3.4"

\* _get_client_key (lines 37-63): << "user", id >> is f"user:{user_id}" and
\* << "ip", address >> is f"ip:{client_ip}"
get_client_key(request) ==
    IF request.user_id # "" THEN << "user", request.user_id >>
    ELSE IF request.forwarded_for # ""
    THEN << "ip", first_forwarded(request.forwarded_for) >>
    ELSE << "ip", IF request.host # "" THEN request.host ELSE "unknown" >>

\* What is_rate_limited returned: (is_limited, retry_after); retry_after is
\* 0 for None
Decision(key, is_limited, retry_after) ==
    [key |-> key, is_limited |-> is_limited, retry_after |-> retry_after]

NoDecision == Decision(<< >>, FALSE, 0)

\* The limiter: self.requests as key -> << count, timestamp >>,
\* self.cleanup_counter, the index of the present instant, and the decision
\* about the last request
Limiter(requests, cleanup_counter, instant, last) ==
    [requests |-> requests, cleanup_counter |-> cleanup_counter,
     instant |-> instant, last |-> last]

NoLimiter == Limiter(<< >>, 0, 1, NoDecision)

\* time.time(), in half seconds
current_time == Instants[limiter.instant]

\* _cleanup_old_entries (lines 112-125)
cleanup_old_entries(requests, time) ==
    [key \in {k \in DOMAIN requests : ~(time - requests[k][2] > 2 * cleanup_age)}
        |-> requests[key]]

\* the occasional cleanup of is_rate_limited (lines 79-83): requests and
\* cleanup_counter after it
occasional_cleanup(requests, cleanup_counter, time) ==
    IF cleanup_counter + 1 >= cleanup_every
    THEN [requests |-> cleanup_old_entries(requests, time), cleanup_counter |-> 0]
    ELSE [requests |-> requests, cleanup_counter |-> cleanup_counter + 1]

\* `max(1, retry_after)` left out
retry_after_unclamped(time, timestamp) == (2 * window - (time - timestamp)) \div 2

\* int(60 - (current_time - timestamp)), then max(1, retry_after)
\* (lines 105-106)
retry_after(time, timestamp) ==
    Max(1, (2 * window - (time - timestamp)) \div 2)

\* is_rate_limited(request) at the time given (lines 65-110): self.requests,
\* self.cleanup_counter and the returned pair
is_rate_limited(request, time) ==
    LET key == get_client_key(request)
        cleaned == occasional_cleanup(limiter.requests, limiter.cleanup_counter,
                                      time)
        requests == cleaned.requests
        allow(entry) == [requests |-> (key :> entry) @@ requests,
                         cleanup_counter |-> cleaned.cleanup_counter,
                         decision |-> Decision(key, FALSE, 0)]
    IN  IF key \in DOMAIN requests
        THEN LET count == requests[key][1]
                 timestamp == requests[key][2]
             IN  IF time - timestamp >= 2 * window
                 THEN allow(<< 1, time >>)
                 ELSE IF count < rate_limit
                 THEN allow(<< count + 1, timestamp >>)
                 ELSE IF count < rate_limit + burst_limit
                 THEN allow(<< count + 1, timestamp >>)
                 ELSE [requests |-> requests,
                       cleanup_counter |-> cleaned.cleanup_counter,
                       decision |-> Decision(key, TRUE,
                                             retry_after(time, timestamp))]
        ELSE allow(<< 1, time >>)

\* RateLimitMiddleware.dispatch (lines 141-171): /health goes past the
\* limiter; another request is answered 429 when it is limited, and handed
\* on otherwise
Dispatch ==
    /\ \E request \in ClientRequests, path \in {"/health", "/api/chat"} :
          IF path = "/health"
          THEN limiter' = Limiter(limiter.requests, limiter.cleanup_counter,
                                  limiter.instant, NoDecision)
          ELSE LET checked == is_rate_limited(request, current_time)
               IN  limiter' = Limiter(checked.requests, checked.cleanup_counter,
                                      limiter.instant, checked.decision)
    /\ UNCHANGED << active_jobs, processing_queue, started, wpc, wjob, wctx,
                    documents, document_metadata, knowledge_resources, now,
                    lookup, embedding_model, pd, last_http, search,
                    submitted >>
    /\ UNCHANGED chunk_vars

\* time passes to the next instant at which a request arrives
Advance ==
    /\ limiter.instant < Len(Instants)
    /\ limiter' = Limiter(limiter.requests, limiter.cleanup_counter,
                          limiter.instant + 1, NoDecision)
    /\ UNCHANGED << active_jobs, processing_queue, started, wpc, wjob, wctx,
                    documents, document_metadata, knowledge_resources, now,
                    lookup, embedding_model, pd, last_http, search,
                    submitted >>
    /\ UNCHANGED chunk_vars

-----------------------------------------------------------------------------
(* Specifications *)

InitPipeline ==
    /\ active_jobs = << >>
    /\ processing_queue = << >>
    /\ started = FALSE
    /\ wpc = [w \in Workers |-> "off"]
    /\ wjob = [w \in Workers |-> NoItem]
    /\ wctx = [w \in Workers |-> NoCtx]
    /\ documents = {}
    /\ document_metadata = {}
    /\ knowledge_resources = {}
    /\ now = 0
    /\ lookup = NoLookup
    /\ embedding_model \in EmbeddingModels
    /\ pd = NoCall
    /\ last_http = NoExchange
    /\ search = NoSearch
    /\ limiter = NoLimiter
    /\ submitted = << >>

Init == InitPipeline /\ InitChunk

WorkerStep(w) ==
    \/ Dequeue(w)
    \/ FetchMeta(w)
    \/ Extract(w)
    \/ EmbedAndStore(w)
    \/ Finish(w)

Next ==
    \/ QueueItem
    \/ StartWorkers
    \/ \E w \in Workers : Dequeue(w)
    \/ \E w \in Workers : FetchMeta(w)
    \/ \E w \in Workers : Extract(w)
    \/ \E w \in Workers : EmbedAndStore(w)
    \/ \E w \in Workers : Finish(w)
    \/ Tick

\* the pipeline: enqueues, the workers and the clock
Spec == Init /\ [][Next]_vars

\* the asyncio event loop runs every task that can run
FairSpec == Spec /\ WF_vars(StartWorkers) /\ \A w \in Workers : WF_vars(WorkerStep(w))

ApiQueueItem == queue_item(ApiJobInputs)

NextApi ==
    \/ ApiQueueItem
    \/ StartWorkers
    \/ \E w \in Workers : Dequeue(w)
    \/ \E w \in Workers : FetchMeta(w)
    \/ \E w \in Workers : Extract(w)
    \/ \E w \in Workers : EmbedAndStore(w)
    \/ \E w \in Workers : Finish(w)
    \/ Tick
    \/ ApiGetJobStatus
    \/ ApiListJobs
    \/ HealthCheck

\* the pipeline together with the HTTP handlers that read the job map
SpecApi == Init /\ [][NextApi]_vars

NextDocument == DirectCall \/ DirectExtract \/ DirectEmbedAndStore \/ Tick

\* direct calls of process_document, one after the other
SpecDocument == Init /\ [][NextDocument]_vars

NextHttp ==
    \/ HttpProcess \/ HttpResumeUpload \/ HttpBatch
    \/ HttpStatus \/ HttpJobs \/ HttpHealth

\* the HTTP surface: requests with and without tokens, before the workers run
SpecHttp == Init /\ [][NextHttp]_vars

\* queue_item (pipeline_manager.py 69-101) called for websites and for an
\* unknown task type, up to MaxPoolJobs times
PoolQueueItem ==
    /\ Cardinality(DOMAIN active_jobs) < MaxPoolJobs
    /\ \E in \in ApiJobInputs : enqueue(in)
    /\ lookup' = NoLookup
    /\ UNCHANGED << started, wpc, wjob, wctx, documents, document_metadata,
                    knowledge_resources, now >>
    /\ UNCHANGED chunk_vars
    /\ UNCHANGED caller_vars

NextPool ==
    \/ PoolQueueItem
    \/ StartWorkers
    \/ \E w \in Workers : Dequeue(w)
    \/ \E w \in Workers : FetchMeta(w)
    \/ \E w \in Workers : Extract(w)
    \/ \E w \in Workers : EmbedAndStore(w)
    \/ \E w \in Workers : Finish(w)

\* the worker pool with more jobs than workers
SpecPool == Init /\ [][NextPool]_vars

NextSearch == SearchDocumentContent \/ SearchResumeContent

\* the similarity searches, one call after the other
SpecSearch == Init /\ [][NextSearch]_vars

NextLimiter == Dispatch \/ Advance

NextCallers == CallerProcess \/ CallerResumeUpload \/ CallerBatch \/ CallerJobs

\* the enqueuing endpoints and GET /jobs, called by a user and by an admin
SpecCallers == Init /\ [][NextCallers]_vars

\* the rate limiter behind its middleware
SpecLimiter == Init /\ [][NextLimiter]_vars

NextChunk == AppendRun \/ CallChunkText

NextChunkLoop == AppendRun \/ EnterChunkText \/ LoopIteration

\* chunk_text run one loop iteration at a time
SpecChunkLoop == Init /\ [][NextChunkLoop]_vars

\* chunk_text applied to the texts built from at most MaxRuns runs
SpecChunk == Init /\ [][NextChunk]_vars

-----------------------------------------------------------------------------
(* Properties *)

Terminal == {"completed", "failed"}

\* the positions of the queue that hold job j
InQueue(j) == {i \in 1..Len(processing_queue) : processing_queue[i].job_id = j}

\* the workers that dequeued job j and have not finished it
Holders(j) == {w \in Workers : wpc[w] \notin {"off", "get", "dead"}
                               /\ wjob[w].job_id = j}

\* worker w resumes after create_embeddings and runs to the end of process_item
EmbedStep(w) == wpc[w] = "embed" /\ wpc'[w] = "finish"

\* worker w writes the outcome of its job
FinishStep(w) == wpc[w] = "finish" /\ wpc'[w] # "finish"

StorageErrors == {"metadata insert failed", "chunk insert failed"}

PostErrors == {"Error storing knowledge resource", "Failed to find document embedding",
               "Failed to insert knowledge resource"}

\* C1: a job is 'queued' exactly while it waits in the queue; a step changes
\* its status only from 'queued' to 'processing', when a worker takes it out
\* of the queue, or from 'processing' to 'completed' or 'failed'; a terminal
\* status never changes again, and a new job starts 'queued'.
C1_StatusLifecycle ==
    /\ [](\A j \in DOMAIN active_jobs :
             active_jobs[j].status = "queued" <=> InQueue(j) # {})
    /\ [][/\ \A j \in DOMAIN active_jobs :
                /\ j \in DOMAIN active_jobs'
                /\ LET s == active_jobs[j].status
                       t == active_jobs'[j].status
                   IN  \/ s = t
                       \/ /\ s = "queued" /\ t = "processing"
                          /\ Head(processing_queue).job_id = j
                          /\ processing_queue' = Tail(processing_queue)
                       \/ s = "processing" /\ t \in Terminal
          /\ \A j \in DOMAIN active_jobs' \ DOMAIN active_jobs :
                active_jobs'[j].status = "queued"]_vars

\* C1 witness: one job ended 'completed' and another ended 'failed'
C1_Witness ==
    \E j, k \in DOMAIN active_jobs :
        active_jobs[j].status = "completed" /\ active_jobs[k].status = "failed"

\* C2: when the extraction of a job's text failed, the processing of the job
\* ends with a failure result that carries an error message, and no chunk row
\* and no metadata row was stored for the job.
C2_ExtractionFailureFailsJob ==
    \A w \in Workers :
        (wpc[w] = "finish" /\ wctx[w].text = "error_message") =>
            /\ ~wctx[w].outcome.value.success
            /\ wctx[w].outcome.value.error # ""
            /\ \A r \in documents : r.run # wjob[w].job_id
            /\ \A r \in document_metadata : r.run # wjob[w].job_id

\* C3: when an insert of the storage step raises, no row written before is
\* removed: after a failed chunk insert the metadata row of the document and
\* the rows of every batch inserted before the failure are in the tables; the
\* job then ends 'failed' with the error in its result, and ending it removes
\* no row either.
C3_StorageFailureNoRollback ==
    [][\A w \in Workers :
          /\ (EmbedStep(w) /\ wctx'[w].outcome.value.error \in StorageErrors) =>
                LET c == wctx'[w]
                    job == wjob[w].job_id
                IN  /\ documents \subseteq documents'
                    /\ document_metadata \subseteq document_metadata'
                    /\ ~c.outcome.value.success
                    /\ c.outcome.value.error = "chunk insert failed" =>
                          /\ [id |-> c.document_id, run |-> job] \in document_metadata'
                          /\ \A i \in 0..(Min(c.inserted * batch_size,
                                              NChunks[c.text]) - 1) :
                                \E r \in documents' :
                                    /\ r.document_id = c.document_id
                                    /\ r.chunk_index = i
                                    /\ r.run = job
          /\ (FinishStep(w) /\ wctx[w].outcome.value.error \in StorageErrors) =>
                /\ active_jobs'[wjob[w].job_id].status = "failed"
                /\ active_jobs'[wjob[w].job_id].result = Some(wctx[w].outcome.value)
                /\ documents' = documents
                /\ document_metadata' = document_metadata]_vars

\* C3 witness: a job ended 'failed' by a chunk insert, and chunk rows and the
\* metadata row it wrote before the failure are in the tables
C3_Witness ==
    \E j \in DOMAIN active_jobs :
        /\ active_jobs[j].status = "failed"
        /\ active_jobs[j].result # None
        /\ active_jobs[j].result[1].error = "chunk insert failed"
        /\ \E r \in documents : r.run = j
        /\ \E r \in document_metadata : r.run = j

\* C4: when the provider call raises, create_embeddings returns one
\* placeholder vector of 1536 components per chunk; unless a store call fails
\* afterwards, every chunk is stored with its placeholder and the processing
\* succeeds, and the job then ends 'completed'.
C4_PlaceholderEmbeddings ==
    [][\A w \in Workers :
          /\ (EmbedStep(w) /\ wctx'[w].provider = "raised") =>
                LET c == wctx'[w]
                    n == NChunks[c.text]
                IN  /\ c.embeddings = Embeddings(n, 1536, TRUE)
                    /\ c.outcome.value.error \notin (StorageErrors \cup PostErrors) =>
                          /\ c.outcome.value.success
                          /\ c.outcome.value.chunks_created = n
                          /\ \A i \in 0..(n - 1) :
                                [document_id |-> c.document_id, chunk_index |-> i,
                                 dim |-> 1536, placeholder |-> TRUE,
                                 run |-> wjob[w].job_id] \in documents'
          /\ (FinishStep(w) /\ wctx[w].provider = "raised"
                            /\ wctx[w].outcome.value.success) =>
                active_jobs'[wjob[w].job_id].status = "completed"]_vars

\* C4 witness: a job ended 'completed' and its chunk rows hold placeholders
C4_Witness ==
    \E j \in DOMAIN active_jobs :
        /\ active_jobs[j].status = "completed"
        /\ \E r \in documents : r.run = j /\ r.placeholder /\ r.dim = 1536

\* C5: once started, every worker is inside its loop, waiting for an item or
\* processing one, whatever the jobs before came to; a worker that waits
\* holds no job.
C5_WorkersSurvive ==
    started =>
        \A w \in Workers :
            /\ wpc[w] \in {"get", "meta", "extract", "embed", "finish"}
            /\ wpc[w] = "get" => wjob[w] = NoItem

\* C5 witness: jobs ended in a failure result and in an exception caught by
\* process_item, and every worker waits for the next item
C5_Witness ==
    /\ \A w \in Workers : wpc[w] = "get"
    /\ \E j, k \in DOMAIN active_jobs :
          /\ active_jobs[j].status = "failed"
          /\ active_jobs[j].result # None
          /\ active_jobs[j].result[1].error = "AttributeError"
          /\ active_jobs[k].status = "failed"
          /\ active_jobs[k].result # None
          /\ active_jobs[k].result[1].error \in
                {"Unsupported task type", "chunk insert failed"}

\* C6: once the workers run, every job in the map eventually is 'completed'
\* or 'failed' with its result recorded.
C6_EveryJobEnds ==
    \A j \in JobIds :
        (started /\ j \in DOMAIN active_jobs) ~>
            (/\ j \in DOMAIN active_jobs
             /\ active_jobs[j].status \in Terminal
             /\ active_jobs[j].result # None)

\* C6 witness: the workers run, a job ended with its result and no job waits
C6_Witness ==
    /\ started
    /\ processing_queue = << >>
    /\ \A w \in Workers : wpc[w] = "get"
    /\ \E j \in DOMAIN active_jobs :
          active_jobs[j].status \in Terminal /\ active_jobs[j].result # None

\* C7: a job that is not terminal is either once in the queue or held by one
\* worker, a terminal job is neither; a job that left the queue never enters
\* it again and no second worker takes it; and a step changes the record of a
\* job only when it is a step of the worker that holds the job, never a step
\* of a handler.
C7_SingleOwner ==
    /\ [](\A j \in DOMAIN active_jobs :
             Cardinality(InQueue(j)) + Cardinality(Holders(j)) =
                 IF active_jobs[j].status \in Terminal THEN 0 ELSE 1)
    /\ [][\A j \in DOMAIN active_jobs :
             /\ InQueue(j) = {} => InQueue(j)' = {}
             /\ Holders(j) # {} => Holders(j)' \subseteq Holders(j)
             /\ (j \notin DOMAIN active_jobs' \/ active_jobs'[j] # active_jobs[j]) =>
                   /\ lookup' = NoLookup
                   /\ \E w \in Holders(j) \cup Holders(j)' :
                         /\ wpc'[w] # wpc[w]
                         /\ \A v \in Workers \ {w} :
                               wpc'[v] = wpc[v] /\ wjob'[v] = wjob[v]]_vars

\* C7 witness: the two workers process two jobs at the same time
C7_Witness ==
    \E j, k \in DOMAIN active_jobs :
        /\ j # k
        /\ Holders(j) = {1}
        /\ Holders(k) = {2}
        /\ active_jobs[j].status = "processing"
        /\ active_jobs[k].status = "processing"

\* C8 as stated: the status lookup of an id that was never enqueued answers
\* with the 'not_found' record and raises nothing
C8_Original ==
    (lookup.op = "status" /\ lookup.id \notin DOMAIN active_jobs) =>
        lookup.status = "not_found" /\ lookup.http = 200

\* C8: the manager's get_job_status returns the 'not_found' record for an id
\* that is not in the map; the handler of GET /status turns it into the HTTP
\* error 404 and answers 200 with the job's status otherwise; neither changes
\* the job map.
C8_UnknownJobLookup ==
    /\ [](\A id \in LookupIds :
             id \notin DOMAIN active_jobs =>
                 get_job_status(id) = [id |-> id, status |-> "not_found"])
    /\ [](lookup.op = "status" =>
             IF lookup.id \in DOMAIN active_jobs
             THEN lookup.http = 200
                  /\ lookup.status = active_jobs[lookup.id].status
             ELSE lookup.http = 404 /\ lookup.status = "not_found")
    /\ [][lookup'.op = "status" => active_jobs' = active_jobs]_vars

\* C8 witness: a status lookup of an unknown id answered while jobs exist
C8_Witness ==
    /\ lookup.op = "status"
    /\ lookup.id \notin DOMAIN active_jobs
    /\ lookup.http = 404
    /\ DOMAIN active_jobs # {}

\* C9: no step removes a job id from the map, and the record of a job that
\* is 'completed' or 'failed' stays as it is.
C9_JobsNeverDeleted ==
    [][/\ DOMAIN active_jobs \subseteq DOMAIN active_jobs'
       /\ Cardinality(DOMAIN active_jobs') >= Cardinality(DOMAIN active_jobs)
       /\ \A j \in DOMAIN active_jobs :
             active_jobs[j].status \in Terminal =>
                 j \in DOMAIN active_jobs' /\ active_jobs'[j] = active_jobs[j]]_vars

\* C9 witness: every job of a full map is terminal and the health check
\* counted all of them
C9_Witness ==
    /\ Cardinality(DOMAIN active_jobs) = MaxJobs
    /\ \A j \in DOMAIN active_jobs : active_jobs[j].status \in Terminal
    /\ lookup.op = "health"
    /\ lookup.count = MaxJobs

\* C10: every character of the text that is no whitespace lies in the part
\* of the text some returned chunk was cut from.
C10_ChunksCoverText ==
    ct_pc = "done" =>
        LET spans == chunk_spans(ct_text)
        IN  \A i \in 1..Len(ct_text) :
                ~IsWhitespace(ct_text[i]) =>
                    \E k \in 1..Len(spans) : spans[k][1] < i /\ i <= spans[k][2]

\* C11: the returned chunks are pieces of the text at offsets that never
\* decrease from one chunk to the next, and no chunk is longer than
\* chunk_size = 400, the chunk text[:chunk_size] of the last resort included.
C11_ChunksOrderedAndBounded ==
    ct_pc = "done" =>
        LET offsets == chunk_offsets(ct_text)
        IN  /\ chunk_size = 400
            /\ Len(offsets) = Len(ct_out)
            /\ \A k \in 1..Len(ct_out) :
                  /\ Len(ct_out[k]) <= chunk_size
                  /\ ct_out[k] = Slice(ct_text, offsets[k], offsets[k] + Len(ct_out[k]))
                  /\ k > 1 => offsets[k - 1] <= offsets[k]

\* C11 witness: every window of a text that is not blank was blank, and the
\* call returned the first chunk_size characters of the text
C11_Witness ==
    /\ ct_pc = "done"
    /\ Len(ct_text) > chunk_size
    /\ SelectSeq(window_chunks(ct_text), NonEmpty) = << >>
    /\ ct_out = << Slice(ct_text, 0, chunk_size) >>

\* C12: every iteration of the loop of chunk_text moves the window start
\* forward, by chunk_size - chunk_overlap = 350 and by at least 1; the loop
\* never runs more than ceil(len(text) / 350) times, so it cannot run for
\* ever; inside the loop the start is below len(text), so the next iteration
\* runs, and the iteration that moves the start to len(text) or beyond
\* returns, with the chunks chunk_text is defined to return.
C12_ChunkLoopTerminates ==
    /\ [][ct_loop' # ct_loop =>
             /\ ct_loop'.start > ct_loop.start
             /\ ct_loop'.start - ct_loop.start = chunk_size - chunk_overlap
             /\ ct_loop'.start - ct_loop.start >= 1
             /\ ct_loop'.iterations = ct_loop.iterations + 1]_vars
    /\ [](ct_loop.iterations <= (Len(ct_text) + 349) \div 350)
    /\ [](ct_pc = "loop" =>
             ct_loop.start < Len(ct_text)
             /\ ct_loop.start = ct_loop.iterations * (chunk_size - chunk_overlap))
    /\ [][(ct_pc = "loop" /\ ct_loop' # ct_loop) =>
             (ct_pc' = "done" <=> ct_loop'.start >= Len(ct_text))]_vars
    /\ [](ct_pc = "done" => ct_out = chunk_text(ct_text))

\* C12 witness: the loop ran three times over a text of 1000 characters
\* without whitespace and returned
C12_Witness ==
    /\ ct_pc = "done"
    /\ Len(ct_text) = 1000
    /\ \A i \in 1..Len(ct_text) : ~IsWhitespace(ct_text[i])
    /\ ct_loop.iterations = 3
    /\ Len(ct_out) = 3

\* C14: chunking a text of 1000 characters that is not blank returns exactly
\* 3 chunks of at most 400 characters each; each chunk after the first
\* starts inside the chunk before it, at most chunk_overlap = 50 characters
\* before its end, so that no character between two chunks is left out.
C14_ThousandCharacters ==
    (ct_pc = "done" /\ Len(ct_text) = 1000 /\ ~is_blank(ct_text)) =>
        LET offsets == chunk_offsets(ct_text)
            end(k) == offsets[k] + Len(ct_out[k])
        IN  /\ Len(ct_out) = 3
            /\ \A k \in 1..Len(ct_out) : Len(ct_out[k]) <= 400
            /\ \A k \in 1..(Len(ct_out) - 1) :
                  /\ offsets[k + 1] < end(k)
                  /\ offsets[k + 1] >= end(k) - chunk_overlap

\* C13: chunk_text returns the empty list for a text that is empty or holds
\* whitespace only; and when extract_text returned such a text,
\* process_document returns a failure result and no row of any table was
\* deleted or inserted.
C13_BlankText ==
    /\ [](\A tid \in TextIds :
             strip(TextOf(tid)) = << >> =>
                 chunk_text(TextOf(tid)) = << >> /\ NChunks[tid] = 0)
    /\ [][(pd.pc = "extract" /\ pd'.pc # "extract"
           /\ strip(TextOf(pd'.text)) = << >>) =>
             /\ pd'.pc = "returned"
             /\ ~pd'.outcome.value.success
             /\ pd'.outcome.value.error = "No text could be extracted"
             /\ documents' = documents
             /\ document_metadata' = document_metadata
             /\ knowledge_resources' = knowledge_resources]_vars

\* C13 witness: a call whose text was whitespace only returned the failure,
\* and the rows an earlier call stored under the same document id are there
C13_Witness ==
    /\ pd.pc = "returned"
    /\ pd.text = "whitespace"
    /\ ~pd.outcome.value.success
    /\ \E r \in documents : r.document_id = pd.document_id
    /\ \E r \in document_metadata : r.id = pd.document_id

\* C15: when process_document returns a success result, its chunks_created
\* is the number of chunks chunk_text makes of the text extract_text
\* returned, and that number is at least one.
C15_ChunksCreated ==
    (pd.pc = "returned" /\ ~pd.outcome.raised /\ pd.outcome.value.success) =>
        /\ pd.outcome.value.chunks_created = Len(chunk_text(TextOf(pd.text)))
        /\ pd.outcome.value.chunks_created >= 1
        /\ pd.outcome.value.document_id = pd.document_id

\* C15 witness: a call on the long text returned success with 11 chunks
C15_Witness ==
    /\ pd.pc = "returned"
    /\ pd.outcome.value.success
    /\ pd.text = "pdf_long"
    /\ Len(TextOf(pd.text)) = 3600
    /\ pd.outcome.value.chunks_created = 11

\* C16: after a document was processed successfully, the chunk rows stored
\* for that document (the same content under the same content type) are the
\* rows of this latest run only.
C16_OnlyLatestRun ==
    (pd.pc = "returned" /\ ~pd.outcome.raised /\ pd.outcome.value.success) =>
        \A r \in documents :
            (/\ r.document_id.hash = pd.document_id.hash
             /\ r.document_id.prefix = pd.document_id.prefix) => r.run = pd.calls

\* C17: every stored chunk row holds an embedding of exactly 1536
\* components.
C17_Dimension1536 ==
    \A r \in documents : r.dim = 1536

\* C18: every stored chunk row carries an embedding, its document id and an
\* index; and when the processing of a document returns success with
\* chunks_created = n, the rows then stored for the document id have the
\* indices 0 .. n-1, each exactly once.
C18_RowsIndexedOnce ==
    /\ [](\A r \in documents :
             r.dim > 0 /\ r.document_id # None /\ r.chunk_index >= 0)
    /\ [][\A w \in Workers :
             (EmbedStep(w) /\ wctx'[w].outcome.value.success) =>
                 LET n == wctx'[w].outcome.value.chunks_created
                     rows == {r \in documents' :
                                 r.document_id = wctx'[w].document_id}
                 IN  /\ \A r \in rows : r.chunk_index \in 0..(n - 1)
                     /\ \A i \in 0..(n - 1) :
                           Cardinality({r \in rows : r.chunk_index = i}) = 1]_vars

\* the endpoints whose handlers call validate_token
Guarded == {"process", "resume", "batch", "status", "jobs"}

\* the header of the last request is 'Bearer <token>'
BearerRequest ==
    last_http.authorization # NoHeader /\ starts_with_bearer(last_http.authorization)

\* the last response tells nothing of the jobs
TellsNothing ==
    last_http.job_id = 0 /\ last_http.status = "" /\ last_http.count = 0

C20_OnlyProviderValidated ==
    (/\ last_http.op \in Guarded
     /\ BearerRequest
     /\ last_http.provider \in {"no_user", "raises"}) =>
        last_http.code = 401 /\ last_http.identity = None

\* C21: queue_item can run in every state, whatever the number of jobs that
\* wait and whether or not the workers were started; the step that adds a
\* job to the map is the step that puts it at the end of the queue and
\* returns its id: the job is 'queued', the queue is one longer, and no
\* worker has to move for it.
C21_QueueItemNeverBlocks ==
    /\ [](Cardinality(DOMAIN active_jobs) < MaxJobs => ENABLED QueueItem)
    /\ [][\A j \in DOMAIN active_jobs' \ DOMAIN active_jobs :
             /\ active_jobs'[j].status = "queued"
             /\ active_jobs'[j].id = j
             /\ Len(processing_queue') = Len(processing_queue) + 1
             /\ processing_queue'[Len(processing_queue')].job_id = j
             /\ SubSeq(processing_queue', 1, Len(processing_queue)) = processing_queue
             /\ wpc' = wpc /\ wjob' = wjob /\ started' = started]_vars

\* C21 witness: no worker was started and MaxJobs jobs wait in the queue,
\* each enqueued behind the one before
C21_Witness ==
    /\ ~started
    /\ Len(processing_queue) = MaxJobs
    /\ \A i \in 1..MaxJobs : processing_queue[i].job_id = i
    /\ \A j \in DOMAIN active_jobs : active_jobs[j].status = "queued"

\* C22: job ids are given in the order of the queue_item calls. Of two jobs,
\* the one enqueued later has left status 'queued' only if the one enqueued
\* first has; a worker always takes the item at the head of the queue, and
\* the items that wait are in the order they were enqueued.
C22_QueueIsFifo ==
    /\ [](\A j, k \in DOMAIN active_jobs :
             (j < k /\ active_jobs[k].status # "queued") =>
                 active_jobs[j].status # "queued")
    /\ [](\A i, l \in 1..Len(processing_queue) :
             i < l => processing_queue[i].job_id < processing_queue[l].job_id)
    /\ [][\A j \in DOMAIN active_jobs :
             (active_jobs[j].status = "queued"
              /\ active_jobs'[j].status = "processing") =>
                 /\ Head(processing_queue).job_id = j
                 /\ \A k \in DOMAIN active_jobs :
                       k < j => active_jobs[k].status # "queued"]_vars

\* C22 witness: the job enqueued second has ended while the job enqueued
\* first, which a worker took before it, is still being processed
C22_Witness ==
    /\ DOMAIN active_jobs = {1, 2}
    /\ active_jobs[1].status = "processing"
    /\ active_jobs[2].status \in Terminal

\* the jobs whose status is 'processing'
Processing == {j \in DOMAIN active_jobs : active_jobs[j].status = "processing"}

\* the worker tasks that exist
Tasks == {w \in Workers : wpc[w] # "off"}

\* C23: start_workers creates exactly worker_count = 2 worker tasks, none
\* exists before and none is added or lost afterwards; at most worker_count
\* jobs are 'processing' at any time, each of them held by a worker of its
\* own.
C23_FixedWorkerPool ==
    /\ [](worker_count = 2)
    /\ [](Cardinality(Tasks) = IF started THEN worker_count ELSE 0)
    /\ [](Cardinality(Processing) <= worker_count)
    /\ [](\A j \in Processing : Cardinality(Holders(j)) = 1)
    /\ [](\A w \in Tasks : wpc[w] # "get" => wjob[w].job_id \in Processing)

\* C23 witness: three jobs were enqueued, two are 'processing' and the third
\* waits in the queue for a worker
C23_Witness ==
    /\ Cardinality(DOMAIN active_jobs) = MaxPoolJobs
    /\ Cardinality(Processing) = worker_count
    /\ Len(processing_queue) = 1
    /\ active_jobs[Head(processing_queue).job_id].status = "queued"

\* every remote call of the last search carries the query embedding, the
\* threshold and match_count equal to the requested limit
CarriesParams ==
    \A i \in 1..Len(search.rpcs) :
        /\ search.rpcs[i].params.match_count = search.limit
        /\ search.rpcs[i].params.match_threshold = match_threshold
        /\ search.rpcs[i].params.query_embedding.dim > 0

\* the rows of the last search are in the order of the ranking, nearest
\* first, and are at most limit
RankedRows ==
    /\ Len(search.rows) <= search.limit
    /\ \A i \in 1..(Len(search.rows) - 1) :
          search.rows[i].similarity >= search.rows[i + 1].similarity
    /\ \A i \in 1..Len(search.rows) : search.rows[i].similarity > match_threshold

\* C24 as stated: every search call embeds the query once and issues exactly
\* one remote call
C24_Original ==
    search.op # "" =>
        search.embedded = 1 /\ Len(search.rpcs) = 1 /\ CarriesParams /\ RankedRows

\* C24: every search call embeds the query once; search_document_content
\* issues exactly one remote call, of match_documents; search_resume_content
\* calls match_resume_content first and, only when that call raised or
\* returned no row, match_documents as a second call, whose rows it filters
\* for resumes and for the user. Every remote call carries the query
\* embedding, the threshold and match_count = limit, and the rows returned
\* are in the order the remote call ranked them.
C24_SearchCalls ==
    /\ search.op # "" => search.embedded = 1 /\ CarriesParams /\ RankedRows
    /\ search.op = "document" =>
          /\ Len(search.rpcs) = 1
          /\ search.rpcs[1].fn = "match_documents"
          /\ ~search.raised
    /\ search.op = "resume" =>
          /\ Len(search.rpcs) \in {1, 2}
          /\ search.rpcs[1].fn = "match_resume_content"
          /\ Len(search.rpcs) = 2 <=> search.rpcs[1].outcome \in {"raised", "empty"}
          /\ Len(search.rpcs) = 2 =>
                /\ search.rpcs[2].fn = "match_documents"
                /\ search.raised <=> search.rpcs[2].outcome = "raised"
                /\ \A i \in 1..Len(search.rows) :
                      /\ search.rows[i].document_type = "resume"
                      /\ truthy(search.user_id) =>
                            search.rows[i].user_id = search.user_id[1]

\* C24 witness: a resume search whose first remote call returned no row made
\* a second one, to match_documents, and returned two of its rows
C24_Witness ==
    /\ search.op = "resume"
    /\ Len(search.rpcs) = 2
    /\ search.rpcs[1].outcome = "empty"
    /\ search.rpcs[2].outcome = "rows"
    /\ search.limit = 5
    /\ Len(search.rows) = 2

\* the entry of the key counts a window that the time given lies in
InWindow(requests, key, time) ==
    /\ key \in DOMAIN requests
    /\ time - requests[key][2] < 2 * window

\* C25: the rate limiter never allows one client more than
\* RATE_LIMIT_PER_MINUTE requests within one minute. The count of an entry is
\* the number of requests of the key allowed since the start of its window,
\* all of them less than 60 seconds apart, so that the count of no entry
\* exceeds rate_limit.
C25_AtMostRateLimit ==
    \A key \in DOMAIN limiter.requests :
        limiter.requests[key][1] <= rate_limit

\* the request decided by the step is treated as a fixed-window counter
\* treats it: inside the window it is allowed and counted while the count is
\* below rate_limit + burst_limit, and rejected after that with a
\* retry_after of 1 to 60 and the entry unchanged; outside any window it is
\* allowed and starts a window with count 1
FixedWindowStep ==
    LET key == limiter'.last.key
        before == limiter.requests
        after == limiter'.requests
        time == current_time
    IN  IF InWindow(before, key, time)
        THEN IF before[key][1] < rate_limit + burst_limit
             THEN /\ ~limiter'.last.is_limited
                  /\ after[key] = << before[key][1] + 1, before[key][2] >>
             ELSE /\ limiter'.last.is_limited
                  /\ limiter'.last.retry_after \in 1..window
                  /\ after[key] = before[key]
        ELSE /\ ~limiter'.last.is_limited
             /\ after[key] = << 1, time >>

\* C26 as stated: every request is treated as a fixed-window counter treats
\* it, and the entry of no other client changes.
C26_Original ==
    [][limiter'.last # NoDecision =>
        /\ FixedWindowStep
        /\ \A other \in DOMAIN limiter.requests \ {limiter'.last.key} :
              /\ other \in DOMAIN limiter'.requests
              /\ limiter'.requests[other] = limiter.requests[other]]_vars

\* C26: every request is treated as a fixed-window counter treats it, and
\* the entry of another client either stays as it is or, at every 100th
\* request, is removed when its window started more than 120 seconds ago.
C26_FixedWindow ==
    [][limiter'.last # NoDecision =>
        /\ FixedWindowStep
        /\ \A other \in DOMAIN limiter.requests \ {limiter'.last.key} :
              \/ /\ other \in DOMAIN limiter'.requests
                 /\ limiter'.requests[other] = limiter.requests[other]
              \/ /\ other \notin DOMAIN limiter'.requests
                 /\ limiter.cleanup_counter + 1 = cleanup_every
                 /\ current_time - limiter.requests[other][2]
                        > 2 * cleanup_age]_vars

\* a request is rejected half a second before the window ends, while the
\* other client has an entry too
C26_Witness ==
    /\ limiter.last.is_limited
    /\ limiter.last.retry_after = 1
    /\ Cardinality(DOMAIN limiter.requests) = 2
    /\ current_time - limiter.requests[limiter.last.key][2] = 2 * window - 1

\* the jobs the caller given is to be shown by GET /jobs with the status
\* filter given: all jobs for an admin, the caller's own otherwise
Listable(caller, status) ==
    {j \in DOMAIN active_jobs :
        /\ status = "" \/ active_jobs[j].status = status
        /\ \/ caller.profile_type = "admin"
           \/ j \in DOMAIN submitted /\ submitted[j].caller.user_id = caller.user_id}

\* C27: GET /jobs returns to a non-admin caller exactly the jobs this caller
\* enqueued that match the status filter, and to an admin all jobs that match
\* it; total_count is the number of these jobs, and the jobs listed are a
\* page of them.
C27_OwnJobsListed ==
    last_http.op = "jobs" /\ last_http.code = 200 =>
        LET listable == Listable(last_http.identity[1], last_http.status)
        IN  /\ last_http.count = Cardinality(listable)
            /\ \A i \in DOMAIN last_http.jobs : last_http.jobs[i] \in listable

\* C30: the user_id and the profile_type in the metadata of every job
\* enqueued through POST /process, POST /resume/upload or POST /batch are
\* those of the authenticated caller.
C30_CallerInMetadata ==
    \A j \in DOMAIN submitted :
        LET metadata == submitted[j].metadata
            caller == submitted[j].caller
        IN  /\ "user_id" \in DOMAIN metadata =>
                  metadata["user_id"] = caller.user_id
            /\ "profile_type" \in DOMAIN metadata =>
                  metadata["profile_type"] = caller.profile_type

\* C28: a job that is 'completed' or 'failed' holds a result and a
\* completed_at time; it is 'completed' exactly when the result's success is
\* true; and a result whose success is false carries an error message.
C28_TerminalRecord ==
    \A j \in DOMAIN active_jobs :
        active_jobs[j].status \in Terminal =>
            /\ active_jobs[j].result # None
            /\ active_jobs[j].completed_at # None
            /\ active_jobs[j].status = "completed"
                  <=> active_jobs[j].result[1].success
            /\ ~active_jobs[j].result[1].success
                  => active_jobs[j].result[1].error # ""

\* a job of the task type POST /batch gives an item without one has failed
\* for its task type, and another job is completed
C28_Witness ==
    \E j, k \in DOMAIN active_jobs :
        /\ active_jobs[j].task_type = batch_input(
               CHOOSE item \in BatchItems : item.task_type = "absent").task_type
        /\ active_jobs[j].status = "failed"
        /\ active_jobs[j].result[1].error = "Unsupported task type"
        /\ active_jobs[k].status = "completed"
        /\ active_jobs[k].result[1].success

\* C29: when the two workers process jobs of the same document id at the
\* same time, the store is not left with chunks of both runs: once every job
\* has ended, the chunk rows stored for a document id are those of one run.
C29_ChunksOfOneRun ==
    (\A j \in DOMAIN active_jobs : active_jobs[j].status \in Terminal) =>
        \A r1, r2 \in documents :
            r1.document_id = r2.document_id => r1.run = r2.run
====
